---------------------------- MODULE Spec2Model ----------------------------
(***************************************************************************)
(* A model of the README generator's pipeline: the ignore-rule engine      *)
(* (gitignoreParser.ts), file discovery, project analysis and chunking     *)
(* (the CodebaseAnalyzer), and the per-chunk generation loop               *)
(* (readmeGenerator.ts).                                                   *)
(*                                                                         *)
(* Strings are TLA+ strings; a character is a string of length 1.  Paths  *)
(* are relative to the workspace root and use "/" (what shouldIgnore      *)
(* computes with path.relative and the backslash replacement).             *)
(***************************************************************************)
EXTENDS Integers, Sequences, FiniteSets, TLC

VARIABLES
    ws,            \* the workspace on disk: its directories and .gitignore
    pc,            \* position of the run
    rules,         \* GitignoreParser.rules
    allFiles,      \* what discoverFiles returned
    lastQuery,     \* the latest shouldIgnore call: its path and its answer
    inputInfos,    \* the records in the order processFiles returned them
    fileInfos,     \* the array of records (createCodeChunks sorts it in place)
    analyses,      \* the results of analyzeProjectStructure so far, in order
    chunks,        \* what createCodeChunks returned
    iChunk,        \* processChunks: the loop index i
    generatedChunks, \* processChunks: the texts collected so far
    calls,         \* the generateReadmeChunk calls issued so far, with their outcomes
    progress,      \* the events handed to the progress callback, in order
    readme,        \* what generateReadme returned
    timers,        \* processChunks: the delays that have elapsed, each with the loop index
    host,          \* the editor and the process: folder, environment, settings, disk
    ui,            \* what the extension has shown to the user, in order
    cancelled,     \* the user has pressed cancel on the progress notification
    disk           \* the README files of the workspace root: name to content

discoverVars == <<ws, rules, allFiles, lastQuery>>
analyzeVars  == <<inputInfos, fileInfos, analyses, chunks>>
generateVars == <<iChunk, generatedChunks, calls, progress, readme, timers>>
hostVars     == <<host, ui, cancelled, disk>>

vars == <<pc, ws, rules, allFiles, lastQuery, inputInfos, fileInfos, analyses, chunks,
          iChunk, generatedChunks, calls, progress, readme, timers,
          host, ui, cancelled, disk>>

(***************************************************************************)
(* JavaScript string and path primitives                                   *)
(***************************************************************************)
CharAt(s, i) == SubSeq(s, i, i)

StartsWith(s, p) == Len(p) <= Len(s) /\ SubSeq(s, 1, Len(p)) = p

EndsWith(s, p) == Len(p) <= Len(s) /\ SubSeq(s, Len(s) - Len(p) + 1, Len(s)) = p

\* The first place at or after i where p occurs in s; 0 when there is none
RECURSIVE IndexFrom(_, _, _)
IndexFrom(s, p, i) ==
    IF i + Len(p) - 1 > Len(s) THEN 0
    ELSE IF SubSeq(s, i, i + Len(p) - 1) = p THEN i
    ELSE IndexFrom(s, p, i + 1)

\* String.prototype.indexOf, 1-based; 0 when p does not occur in s
IndexOf(s, p) == IndexFrom(s, p, 1)

Includes(s, p) == IndexOf(s, p) > 0

\* The last place at or before i where p occurs in s; 0 when there is none
RECURSIVE LastIndexFrom(_, _, _)
LastIndexFrom(s, p, i) ==
    IF i < 1 THEN 0
    ELSE IF SubSeq(s, i, i + Len(p) - 1) = p THEN i
    ELSE LastIndexFrom(s, p, i - 1)

LastIndexOf(s, p) == LastIndexFrom(s, p, Len(s) - Len(p) + 1)

\* String.prototype.split with a non-empty separator
RECURSIVE Split(_, _)
Split(s, sep) ==
    LET i == IndexOf(s, sep)
    IN  IF i = 0 THEN <<s>>
        ELSE <<SubSeq(s, 1, i - 1)>> \o Split(SubSeq(s, i + Len(sep), Len(s)), sep)

IsWhitespace(c) == c \in {" ", "\t", "\n", "\r"}

RECURSIVE TrimStart(_)
TrimStart(s) ==
    IF Len(s) > 0 /\ IsWhitespace(CharAt(s, 1)) THEN TrimStart(SubSeq(s, 2, Len(s))) ELSE s

RECURSIVE TrimEnd(_)
TrimEnd(s) ==
    IF Len(s) > 0 /\ IsWhitespace(CharAt(s, Len(s)))
    THEN TrimEnd(SubSeq(s, 1, Len(s) - 1)) ELSE s

Trim(s) == TrimEnd(TrimStart(s))

Upper == <<"A","B","C","D","E","F","G","H","I","J","K","L","M",
           "N","O","P","Q","R","S","T","U","V","W","X","Y","Z">>
Lower == <<"a","b","c","d","e","f","g","h","i","j","k","l","m",
           "n","o","p","q","r","s","t","u","v","w","x","y","z">>

LowerChar(c) ==
    IF \E k \in 1..26 : Upper[k] = c
    THEN Lower[CHOOSE k \in 1..26 : Upper[k] = c] ELSE c

RECURSIVE ToLowerCase(_)
ToLowerCase(s) ==
    IF Len(s) = 0 THEN ""
    ELSE LowerChar(CharAt(s, 1)) \o ToLowerCase(SubSeq(s, 2, Len(s)))

InSeq(x, seq) == \E k \in 1..Len(seq) : seq[k] = x

\* path.basename: the part after the last "/"
Basename(p) == LET segs == Split(p, "/") IN segs[Len(segs)]

\* path.dirname of a relative path: "." when the path has no "/"
Dirname(p) ==
    LET i == LastIndexOf(p, "/") IN IF i = 0 THEN "." ELSE SubSeq(p, 1, i - 1)

\* path.extname: from the last "." of the basename, "" when there is none
\* or when the only "." is the basename's first character
Extname(p) ==
    LET b == Basename(p)
        i == LastIndexOf(b, ".")
    IN  IF i <= 1 \/ b = ".." THEN "" ELSE SubSeq(b, i, Len(b))

\* path.join(dirPath, name), relative to the workspace root
JoinPath(dir, name) == IF dir = "" THEN name ELSE dir \o "/" \o name

(***************************************************************************)
(* GitignoreParser: the rules                                              *)
(***************************************************************************)
\* parseGitignoreContent, one line, with the markers left on the pattern
ParseLineKeepsMarkers(line) ==
    LET trimmedLine == Trim(line)
    IN  IF trimmedLine = "" \/ StartsWith(trimmedLine, "#") THEN <<>>
        ELSE <<[pattern     |-> trimmedLine,
                isNegation  |-> StartsWith(trimmedLine, "!"),
                isDirectory |-> EndsWith(trimmedLine, "/")]>>

\* parseGitignoreContent, one line: no rule for a blank line or a comment
ParseLine(line) ==
    LET trimmedLine == Trim(line)
        isNegation  == StartsWith(trimmedLine, "!")
        isDirectory == EndsWith(trimmedLine, "/")
        p1 == IF isNegation THEN SubSeq(trimmedLine, 2, Len(trimmedLine)) ELSE trimmedLine
        \* slice(0, -1) of the empty string is the empty string
        p2 == IF isDirectory THEN SubSeq(p1, 1, Len(p1) - 1) ELSE p1
    IN  IF trimmedLine = "" \/ StartsWith(trimmedLine, "#") THEN <<>>
        ELSE <<[pattern |-> p2, isNegation |-> isNegation, isDirectory |-> isDirectory]>>

RECURSIVE ParseLines(_)
ParseLines(lines) ==
    IF lines = <<>> THEN <<>> ELSE ParseLine(Head(lines)) \o ParseLines(Tail(lines))

parseGitignoreContent(content) == ParseLines(Split(content, "\n"))

defaultPatterns == <<
        ".git/**", ".svn/**", ".hg/**", ".bzr/**", "node_modules/**",
        "bower_components/**", "vendor/**", "packages/**", "dist/**",
        "build/**", "out/**", "target/**", "bin/**", "obj/**", "*.min.js",
        "*.min.css", "*.log", "*.tmp", "*.temp", "*.cache", ".DS_Store",
        "Thumbs.db", "desktop.ini", ".vscode/**", ".idea/**", ".vs/**",
        "*.swp", "*.swo", "*.swn", "*~", "*.exe", "*.dll", "*.so",
        "*.dylib", "*.o", "*.obj", "*.a", "*.lib", "*.bin", "*.zip",
        "*.tar", "*.tar.gz", "*.tgz", "*.rar", "*.7z", "*.bz2", "*.xz",
        "*.jpg", "*.jpeg", "*.png", "*.gif", "*.bmp", "*.ico", "*.svg",
        "*.tiff", "*.tif", "*.webp", "*.heic", "*.mp4", "*.avi", "*.mov",
        "*.wmv", "*.flv", "*.webm", "*.mkv", "*.mp3", "*.wav", "*.flac",
        "*.aac", "*.ogg", "*.wma", "*.pdf", "*.doc", "*.docx", "*.xls",
        "*.xlsx", "*.ppt", "*.pptx", "*.sqlite", "*.sqlite3", "*.db",
        "*.mdb", "package-lock.json", "yarn.lock", "pnpm-lock.yaml",
        "composer.lock", "Gemfile.lock", "Pipfile.lock", "poetry.lock",
        "Cargo.lock", "coverage/**", ".nyc_output/**", "__coverage__/**",
        ".env", ".env.local", ".env.*.local", "*.pem", "*.key", "*.crt",
        "*.cer"
    >>

addDefaultExclusions(rs) ==
    rs \o [k \in 1..Len(defaultPatterns) |->
              [pattern     |-> defaultPatterns[k],
               isNegation  |-> FALSE,
               isDirectory |-> Includes(defaultPatterns[k], "**")
                               \/ Includes(defaultPatterns[k], "/")]]

(***************************************************************************)
(* GitignoreParser: matching                                               *)
(***************************************************************************)
\* The regular expression matchesPattern builds from a wildcard pattern, as
\* a sequence of tokens: "\." for ".", ".*" for "*", "." for "?", and the
\* character itself otherwise (patterns here hold no other regex operator).
RegexPattern(pattern) ==
    [k \in 1..Len(pattern) |->
        LET c == CharAt(pattern, k)
        IN  IF c = "*" THEN [kind |-> "star", ch |-> ""]
            ELSE IF c = "?" THEN [kind |-> "any", ch |-> ""]
            ELSE [kind |-> "lit", ch |-> c]]

\* Whether tokens re[i..] match s[j..] to its end (the regex is anchored)
RECURSIVE RegexMatchFrom(_, _, _, _)
RegexMatchFrom(re, i, s, j) ==
    IF i > Len(re) THEN j > Len(s)
    ELSE IF re[i].kind = "star"
         THEN \E k \in j..(Len(s) + 1) : RegexMatchFrom(re, i + 1, s, k)
    ELSE IF j > Len(s) THEN FALSE
    ELSE IF re[i].kind = "any" THEN RegexMatchFrom(re, i + 1, s, j + 1)
    ELSE CharAt(s, j) = re[i].ch /\ RegexMatchFrom(re, i + 1, s, j + 1)

RegexTest(pattern, s) == RegexMatchFrom(RegexPattern(pattern), 1, s, 1)

matchesPattern(filePath, pattern) ==
    LET segments == Split(filePath, "/")
    IN  IF EndsWith(pattern, "/**")
        THEN LET dirPattern == SubSeq(pattern, 1, Len(pattern) - 3)
             IN  \/ StartsWith(filePath, dirPattern \o "/")
                 \/ filePath = dirPattern
                 \/ InSeq(dirPattern, segments)
        ELSE IF Includes(pattern, "*")
        THEN \/ RegexTest(pattern, filePath)
             \/ RegexTest(pattern, Basename(filePath))
             \/ \E k \in 1..Len(segments) : RegexTest(pattern, segments[k])
        ELSE \/ filePath = pattern
             \/ StartsWith(filePath, pattern \o "/")
             \/ Basename(filePath) = pattern
             \/ InSeq(pattern, segments)

\* The loop of shouldIgnore over rules lo..hi in order, flag being the running
\* answer on entry.  The range is halved and the answer of the first half is
\* decided before the second half starts, which keeps TLC's evaluation shallow.
RECURSIVE ShouldIgnoreOver(_, _, _, _, _)
ShouldIgnoreOver(rs, filePath, lo, hi, flag) ==
    IF lo > hi THEN flag
    ELSE IF lo = hi
    THEN IF matchesPattern(filePath, rs[lo].pattern) THEN ~rs[lo].isNegation ELSE flag
    ELSE LET mid == (lo + hi) \div 2
         IN  IF ShouldIgnoreOver(rs, filePath, lo, mid, flag)
             THEN ShouldIgnoreOver(rs, filePath, mid + 1, hi, TRUE)
             ELSE ShouldIgnoreOver(rs, filePath, mid + 1, hi, FALSE)

\* shouldIgnore deciding by the first matching rule instead of the last
shouldIgnoreFirstMatch(rs, filePath) ==
    LET M == {i \in 1..Len(rs) : matchesPattern(filePath, rs[i].pattern)}
    IN  IF M = {} THEN FALSE
        ELSE ~rs[CHOOSE i \in M : \A j \in M : i <= j].isNegation

shouldIgnore(rs, filePath) == ShouldIgnoreOver(rs, filePath, 1, Len(rs), FALSE)

binaryExtensions == {
        ".exe", ".dll", ".so", ".dylib", ".bin", ".obj", ".o", ".a",
        ".lib", ".jpg", ".jpeg", ".png", ".gif", ".bmp", ".ico", ".svg",
        ".tiff", ".tif", ".webp", ".heic", ".psd", ".ai", ".mp4", ".avi",
        ".mov", ".wmv", ".flv", ".webm", ".mkv", ".m4v", ".mp3", ".wav",
        ".flac", ".aac", ".ogg", ".wma", ".m4a", ".zip", ".rar", ".7z",
        ".tar", ".gz", ".bz2", ".xz", ".tgz", ".pdf", ".doc", ".docx",
        ".xls", ".xlsx", ".ppt", ".pptx", ".sqlite", ".sqlite3", ".db",
        ".mdb", ".accdb", ".ttf", ".otf", ".woff", ".woff2", ".eot",
        ".pem", ".key", ".crt", ".cer", ".p12", ".pfx", ".class", ".pyc",
        ".pyo", ".wasm", ".beam"
    }

isBinaryFile(filePath) == ToLowerCase(Extname(filePath)) \in binaryExtensions

(***************************************************************************)
(* The workspace on disk                                                   *)
(*   dirs: each readable directory's entries, in readdirSync's order; a    *)
(*         directory that is listed but has no entry here cannot be read   *)
(*   hasGitignore, gitignore: the root's .gitignore file and its content   *)
(***************************************************************************)
F(name) == [name |-> name, kind |-> "file"]
D(name) == [name |-> name, kind |-> "dir"]
O(name) == [name |-> name, kind |-> "other"]   \* a socket, a dangling link

TreeScenario ==
    ("" :> <<D("dist"), F("index.js"), F("package.json")>>) @@
    ("dist" :> <<F("bundle.js")>>)

TreeMixed ==
    ("" :> <<F("notes.txt"), F("a.txt"), D("src"), F("lib.wasm"), F("PHOTO.PNG"),
             F("debug.log"), O("run.sock")>>) @@
    ("src" :> <<F("app.tsx"), F("keep.log"), D("dist")>>) @@
    ("src/dist" :> <<F("x.js")>>)

TreeDocs ==
    ("" :> <<D("locked"), D("docs"), F("README.md")>>) @@
    ("docs" :> <<F("notes.txt"), F("guide.md")>>)

TreeNested ==
    ("" :> <<D("docs"), F("main.py")>>) @@
    ("docs" :> <<F("notes.txt"), D("img")>>) @@
    ("docs/img" :> <<F("logo.svg"), F("notes.txt")>>)

Trees == {TreeScenario, TreeMixed, TreeDocs, TreeNested}

GitignoreContents ==
    { "dist/",
      "# build\n*.txt\n!notes.txt\n",
      "!dist\n\n  src/  \r\n!debug.log",
      "docs\n!docs/notes.txt\n" }

WithGitignore(tree, content) ==
    [dirs |-> [d \in DOMAIN tree |->
                  IF d = "" THEN <<F(".gitignore")>> \o tree[d] ELSE tree[d]],
     hasGitignore |-> TRUE,
     gitignore |-> content]

WithoutGitignore(tree) == [dirs |-> tree, hasGitignore |-> FALSE, gitignore |-> ""]

Workspaces ==
    {WithoutGitignore(t) : t \in Trees}
    \cup {WithGitignore(t, c) : t \in Trees, c \in GitignoreContents}

\* Every path of a workspace: the paths shouldIgnore can be asked about
RECURSIVE PathsUnder(_, _)
PathsUnder(tree, dir) ==
    IF dir \notin DOMAIN tree THEN {}
    ELSE UNION { {JoinPath(dir, tree[dir][k].name)}
                 \cup (IF tree[dir][k].kind = "dir"
                       THEN PathsUnder(tree, JoinPath(dir, tree[dir][k].name)) ELSE {})
                 : k \in 1..Len(tree[dir]) }

QueryPaths(w) == PathsUnder(w.dirs, "") \cup {"dist", ""}

(***************************************************************************)
(* GitignoreParser constructor, CodebaseAnalyzer.discoverFiles             *)
(***************************************************************************)
loadGitignoreRules(w) ==
    IF w.hasGitignore THEN parseGitignoreContent(w.gitignore) ELSE <<>>

\* The constructor that stores the defaults before the rules of the file
NewGitignoreParserDefaultsFirst(w) == addDefaultExclusions(<<>>) \o loadGitignoreRules(w)

\* Reads the excludePatterns setting; no code of the repository calls it
getAdditionalExclusions(h) == h.excludePatterns

NewGitignoreParser(w) == addDefaultExclusions(loadGitignoreRules(w))

RECURSIVE traverseDirectory(_, _, _, _)
RECURSIVE traverseEntries(_, _, _, _, _)
RECURSIVE traverseEntriesNoBinaryCheck(_, _, _, _, _)
RECURSIVE traverseEntriesNoIgnoreCheck(_, _, _, _, _)
RECURSIVE traverseEntriesIntoIgnored(_, _, _, _, _)

\* traverseEntries that goes into a directory without asking shouldIgnore
traverseEntriesIntoIgnored(w, rs, dirPath, entries, files) ==
    IF entries = <<>> THEN files
    ELSE LET entry    == Head(entries)
             fullPath == JoinPath(dirPath, entry.name)
             after    ==
                 IF entry.kind = "dir"
                 THEN traverseDirectory(w, rs, fullPath, files)
                 ELSE IF entry.kind = "file"
                 THEN IF ~shouldIgnore(rs, fullPath) /\ ~isBinaryFile(fullPath)
                      THEN Append(files, fullPath) ELSE files
                 ELSE files
         IN  traverseEntriesIntoIgnored(w, rs, dirPath, Tail(entries), after)

\* traverseEntries without the isBinaryFile test on files
traverseEntriesNoBinaryCheck(w, rs, dirPath, entries, files) ==
    IF entries = <<>> THEN files
    ELSE LET entry    == Head(entries)
             fullPath == JoinPath(dirPath, entry.name)
             after    ==
                 IF entry.kind = "dir"
                 THEN IF ~shouldIgnore(rs, fullPath)
                      THEN traverseDirectory(w, rs, fullPath, files) ELSE files
                 ELSE IF entry.kind = "file"
                 THEN IF ~shouldIgnore(rs, fullPath)
                      THEN Append(files, fullPath) ELSE files
                 ELSE files
         IN  traverseEntriesNoBinaryCheck(w, rs, dirPath, Tail(entries), after)

\* traverseEntries without consulting shouldIgnore
traverseEntriesNoIgnoreCheck(w, rs, dirPath, entries, files) ==
    IF entries = <<>> THEN files
    ELSE LET entry    == Head(entries)
             fullPath == JoinPath(dirPath, entry.name)
             after    ==
                 IF entry.kind = "dir"
                 THEN traverseDirectory(w, rs, fullPath, files)
                 ELSE IF entry.kind = "file"
                 THEN IF ~isBinaryFile(fullPath)
                      THEN Append(files, fullPath) ELSE files
                 ELSE files
         IN  traverseEntriesNoIgnoreCheck(w, rs, dirPath, Tail(entries), after)

\* The for loop of traverseDirectory over the entries of dirPath
traverseEntries(w, rs, dirPath, entries, files) ==
    IF entries = <<>> THEN files
    ELSE LET entry    == Head(entries)
             fullPath == JoinPath(dirPath, entry.name)
             after    ==
                 IF entry.kind = "dir"
                 THEN IF ~shouldIgnore(rs, fullPath)
                      THEN traverseDirectory(w, rs, fullPath, files) ELSE files
                 ELSE IF entry.kind = "file"
                 THEN IF ~shouldIgnore(rs, fullPath) /\ ~isBinaryFile(fullPath)
                      THEN Append(files, fullPath) ELSE files
                 ELSE files
         IN  traverseEntries(w, rs, dirPath, Tail(entries), after)

\* readdirSync throws on a directory that cannot be read: caught, subtree skipped
traverseDirectory(w, rs, dirPath, files) ==
    IF dirPath \notin DOMAIN w.dirs THEN files
    ELSE traverseEntries(w, rs, dirPath, w.dirs[dirPath], files)

discoverFiles(w, rs) == traverseDirectory(w, rs, "", <<>>)

(***************************************************************************)
(* Discovery: construct the analyzer, ask shouldIgnore, discover           *)
(***************************************************************************)
NoQuery == [asked |-> FALSE, path |-> "", answer |-> FALSE]

\* process.env.PERPLEXITY_API_KEY: a string or undefined
Undefined == [defined |-> FALSE, value |-> ""]
Defined(value) == [defined |-> TRUE, value |-> value]

\* An open folder that exists, no key in the environment, the settings at
\* their defaults (maxFileSize, excludePatterns), every file readable
DefaultHost ==
    [workspaceFolder |-> TRUE,
     rootExists      |-> TRUE,
     apiKeyEnv       |-> Undefined,
     maxFileSize     |-> 1048576,
     excludePatterns |-> <<>>,
     unreadable      |-> {}]

\* The values of the readmeGenerator.excludePatterns setting
ExcludeSettings == {<<>>, <<"*.md", "index.js", "src/dist">>}

\* A workspace root with no README and no backup of one
NoReadmeFiles == [name \in {} |-> ""]

InitHost(hosts) ==
    /\ host \in hosts
    /\ ui = <<>>
    /\ cancelled = FALSE
    /\ disk = NoReadmeFiles

\* No generation under way
InitNotGenerating ==
    /\ iChunk = 0
    /\ generatedChunks = <<>>
    /\ calls = <<>>
    /\ progress = <<>>
    /\ readme = ""
    /\ timers = <<>>

InitDiscover ==
    /\ ws \in Workspaces
    /\ pc = "new"
    /\ rules = <<>>
    /\ allFiles = <<>>
    /\ lastQuery = NoQuery
    /\ inputInfos = <<>>
    /\ fileInfos = <<>>
    /\ analyses = <<>>
    /\ chunks = <<>>
    /\ InitNotGenerating
    /\ InitHost({[DefaultHost EXCEPT !.excludePatterns = e] : e \in ExcludeSettings})

Construct ==
    /\ pc = "new"
    /\ rules' = NewGitignoreParser(ws)
    /\ pc' = "ready"
    /\ UNCHANGED <<ws, allFiles, lastQuery, analyzeVars, generateVars, hostVars>>

\* shouldIgnore reads the rules and changes nothing: one call on the
\* constructed parser stands for a call at any time
ShouldIgnoreCall ==
    /\ pc = "discovered"
    /\ ~lastQuery.asked
    /\ \E p \in QueryPaths(ws) :
          lastQuery' = [asked |-> TRUE, path |-> p, answer |-> shouldIgnore(rules, p)]
    /\ UNCHANGED <<ws, pc, rules, allFiles, analyzeVars, generateVars, hostVars>>

DiscoverFiles ==
    /\ pc = "ready"
    /\ allFiles' = discoverFiles(ws, rules)
    /\ pc' = "discovered"
    /\ UNCHANGED <<ws, rules, lastQuery, analyzeVars, generateVars, hostVars>>

NextDiscover == Construct \/ ShouldIgnoreCall \/ DiscoverFiles

SpecDiscover == InitDiscover /\ [][NextDiscover]_vars

(***************************************************************************)
(* Properties of the ignore rules and of discovery                         *)
(***************************************************************************)
Range(seq) == {seq[k] : k \in 1..Len(seq)}

MatchingRules(rs, p) == {i \in 1..Len(rs) : matchesPattern(p, rs[i].pattern)}

LastMatching(rs, p) == CHOOSE i \in MatchingRules(rs, p) : \A j \in MatchingRules(rs, p) : j <= i

\* C1: the answer of shouldIgnore(path) is the complement of isNegation of the
\* last rule, in insertion order, whose pattern matches the path, and it is
\* false when no rule matches.
C1_LastMatchingRuleDecides ==
    lastQuery.asked =>
        lastQuery.answer =
            IF MatchingRules(rules, lastQuery.path) = {} THEN FALSE
            ELSE ~rules[LastMatching(rules, lastQuery.path)].isNegation

\* C1 witness: a path asked about that an unnegated rule matches and that a
\* later negation rule re-includes.
C1_Witness ==
    /\ lastQuery.asked
    /\ ~lastQuery.answer
    /\ \E i \in MatchingRules(rules, lastQuery.path) : ~rules[i].isNegation

\* C2 as stated: no discovered path has a binary extension and no discovered
\* path matches an unnegated ignore rule.
C2_NoneMatchesUnnegatedRule ==
    pc = "discovered" =>
        \A f \in Range(allFiles) :
            /\ ~isBinaryFile(f)
            /\ \A i \in MatchingRules(rules, f) : rules[i].isNegation

\* C2 amended: no discovered path has a binary extension, and the last rule
\* matching a discovered path, if any rule matches it, is a negation rule.
C2_NoneBinaryNoneIgnored ==
    pc = "discovered" =>
        \A f \in Range(allFiles) :
            /\ ~isBinaryFile(f)
            /\ MatchingRules(rules, f) # {} => rules[LastMatching(rules, f)].isNegation

\* C2 witness: discovery has returned a path that an unnegated rule matches.
C2_Witness ==
    /\ pc = "discovered"
    /\ \E f \in Range(allFiles) : \E i \in MatchingRules(rules, f) : ~rules[i].isNegation

ScenarioWorkspace == WithGitignore(TreeScenario, "dist/")

\* C8 as stated: in the scenario (package.json, index.js, a .gitignore holding
\* the line dist/, and dist/bundle.js) discovery returns exactly package.json
\* and index.js.
C8_ScenarioReturnsTwoPaths ==
    (ws = ScenarioWorkspace /\ pc = "discovered") =>
        /\ Range(allFiles) = {"package.json", "index.js"}
        /\ Len(allFiles) = 2

\* C8 amended: in the scenario discovery returns exactly three paths, the
\* .gitignore file itself, index.js and package.json, and nothing under dist/.
C8_ScenarioReturnsThreePaths ==
    (ws = ScenarioWorkspace /\ pc = "discovered") =>
        /\ Range(allFiles) = {".gitignore", "index.js", "package.json"}
        /\ Len(allFiles) = 3

\* C8 witness: discovery has run on the scenario's directory.
C8_Witness == ws = ScenarioWorkspace /\ pc = "discovered" /\ allFiles # <<>>

(***************************************************************************)
(* File records (FileInfo) as processFiles builds them                     *)
(***************************************************************************)
languageMap == <<
        <<".js", "JavaScript">>, <<".jsx", "React JSX">>,
        <<".ts", "TypeScript">>, <<".tsx", "React TSX">>,
        <<".mjs", "JavaScript Module">>, <<".cjs", "CommonJS">>,
        <<".py", "Python">>, <<".pyw", "Python">>, <<".pyx", "Cython">>,
        <<".html", "HTML">>, <<".htm", "HTML">>, <<".css", "CSS">>,
        <<".scss", "SCSS">>, <<".sass", "Sass">>, <<".less", "Less">>,
        <<".vue", "Vue">>, <<".svelte", "Svelte">>, <<".astro", "Astro">>,
        <<".java", "Java">>, <<".kt", "Kotlin">>,
        <<".kts", "Kotlin Script">>, <<".scala", "Scala">>,
        <<".groovy", "Groovy">>, <<".clj", "Clojure">>, <<".c", "C">>,
        <<".h", "C Header">>, <<".cpp", "C++">>, <<".cxx", "C++">>,
        <<".cc", "C++">>, <<".hpp", "C++ Header">>, <<".cs", "C#">>,
        <<".rs", "Rust">>, <<".go", "Go">>, <<".zig", "Zig">>,
        <<".swift", "Swift">>, <<".m", "Objective-C">>,
        <<".mm", "Objective-C++">>, <<".dart", "Dart">>, <<".php", "PHP">>,
        <<".rb", "Ruby">>, <<".pl", "Perl">>, <<".lua", "Lua">>,
        <<".r", "R">>, <<".sh", "Shell">>, <<".bash", "Bash">>,
        <<".zsh", "Zsh">>, <<".fish", "Fish">>, <<".ps1", "PowerShell">>,
        <<".bat", "Batch">>, <<".cmd", "Command">>, <<".ml", "OCaml">>,
        <<".hs", "Haskell">>, <<".elm", "Elm">>, <<".ex", "Elixir">>,
        <<".exs", "Elixir Script">>, <<".erl", "Erlang">>,
        <<".json", "JSON">>, <<".yaml", "YAML">>, <<".yml", "YAML">>,
        <<".toml", "TOML">>, <<".xml", "XML">>, <<".ini", "INI">>,
        <<".cfg", "Config">>, <<".conf", "Config">>, <<".md", "Markdown">>,
        <<".mdx", "MDX">>, <<".rst", "reStructuredText">>,
        <<".txt", "Text">>, <<".sql", "SQL">>, <<".plsql", "PL/SQL">>,
        <<".psql", "PostgreSQL">>, <<".dockerfile", "Docker">>,
        <<".tf", "Terraform">>, <<".hcl", "HCL">>,
        <<".proto", "Protocol Buffers">>, <<".graphql", "GraphQL">>,
        <<".gql", "GraphQL">>, <<".sol", "Solidity">>,
        <<".vim", "VimScript">>, <<".asm", "Assembly">>, <<".s", "Assembly">>
    >>

getLanguageFromExtension(filePath) ==
    LET extension == ToLowerCase(Extname(filePath))
        hits == {k \in 1..Len(languageMap) : languageMap[k][1] = extension}
    IN  IF hits = {} THEN "Unknown" ELSE languageMap[CHOOSE k \in hits : TRUE][2]

mainFilePatterns == <<
        "main.", "index.", "app.", "server.", "client.",
        "package.json", "requirements.txt", "setup.py",
        "dockerfile", "docker-compose.yml", "makefile",
        "readme.md", "readme.txt", "license", "changelog.md"
    >>

isMainFile(filePath) ==
    LET fileName == ToLowerCase(Basename(filePath))
    IN  \E k \in 1..Len(mainFilePatterns) :
            StartsWith(fileName, mainFilePatterns[k]) \/ fileName = mainFilePatterns[k]

\* The record processFiles pushes for a file of the given relative path,
\* text and size in bytes
FileInfo(relPath, content, size) ==
    [path       |-> relPath,
     content    |-> content,
     size       |-> size,
     language   |-> getLanguageFromExtension(relPath),
     isMainFile |-> isMainFile(relPath)]

\* Array.from(new Set(list)): the first occurrence of each element, in order
RECURSIVE Unique(_)
Unique(list) ==
    IF list = <<>> THEN <<>>
    ELSE LET front == Unique(SubSeq(list, 1, Len(list) - 1))
             last  == list[Len(list)]
         IN  IF InSeq(last, front) THEN front ELSE Append(front, last)

(***************************************************************************)
(* CodebaseAnalyzer.determineProjectType                                   *)
(***************************************************************************)
hasFile(infos, name) ==
    \E k \in 1..Len(infos) : ToLowerCase(Basename(infos[k].path)) = name

hasExtension(infos, ext) == \E k \in 1..Len(infos) : EndsWith(infos[k].path, ext)

\* The cascade with the Python rule tried before the package.json rule
determineProjectTypePythonFirst(infos, languages) ==
    IF hasFile(infos, "setup.py") \/ hasFile(infos, "requirements.txt")
    THEN IF hasFile(infos, "manage.py") THEN "Django Application" ELSE "Python Project"
    ELSE IF hasFile(infos, "package.json")
    THEN IF hasExtension(infos, ".jsx") \/ hasExtension(infos, ".tsx")
         THEN "React Application"
         ELSE IF hasExtension(infos, ".vue") THEN "Vue.js Application"
         ELSE IF hasFile(infos, "next.config.js") \/ hasFile(infos, "next.config.ts")
         THEN "Next.js Application"
         ELSE "Node.js Application"
    ELSE IF hasFile(infos, "pom.xml") THEN "Maven Java Project"
    ELSE IF hasFile(infos, "build.gradle") THEN "Gradle Java Project"
    ELSE IF hasFile(infos, "go.mod") THEN "Go Module"
    ELSE IF hasFile(infos, "cargo.toml") THEN "Rust Project"
    ELSE IF hasFile(infos, "pubspec.yaml") THEN "Flutter Application"
    ELSE IF Len(languages) > 0 THEN languages[1] \o " Project"
    ELSE "Software Project"

determineProjectType(infos, languages) ==
    IF hasFile(infos, "package.json")
    THEN IF hasExtension(infos, ".jsx") \/ hasExtension(infos, ".tsx")
         THEN "React Application"
         ELSE IF hasExtension(infos, ".vue") THEN "Vue.js Application"
         ELSE IF hasFile(infos, "next.config.js") \/ hasFile(infos, "next.config.ts")
         THEN "Next.js Application"
         ELSE "Node.js Application"
    ELSE IF hasFile(infos, "setup.py") \/ hasFile(infos, "requirements.txt")
    THEN IF hasFile(infos, "manage.py") THEN "Django Application" ELSE "Python Project"
    ELSE IF hasFile(infos, "pom.xml") THEN "Maven Java Project"
    ELSE IF hasFile(infos, "build.gradle") THEN "Gradle Java Project"
    ELSE IF hasFile(infos, "go.mod") THEN "Go Module"
    ELSE IF hasFile(infos, "cargo.toml") THEN "Rust Project"
    ELSE IF hasFile(infos, "pubspec.yaml") THEN "Flutter Application"
    ELSE IF Len(languages) > 0 THEN languages[1] \o " Project"
    ELSE "Software Project"

(***************************************************************************)
(* CodebaseAnalyzer.analyzeProjectStructure                                *)
(***************************************************************************)
\* The package.json texts of the modelled projects
ManifestExpress == "{\"dependencies\":{\"express\":\"4.18.0\"}}"
ManifestBoth ==
    "{\"dependencies\":{\"express\":\"4\",\"lodash\":\"4\"},\"devDependencies\":{\"jest\":\"29\",\"lodash\":\"4\"}}"
ManifestDevOnly == "{\"name\":\"tool\",\"devDependencies\":{\"jest\":\"29\",\"express\":\"4\"}}"
ManifestPlain == "{\"name\":\"plain\"}"
ManifestBroken == "{\"dependencies\":{\"express\""

\* JSON.parse on those texts: ok is false when it throws; otherwise the keys
\* (Object.keys) of the dependencies and devDependencies objects, when present
JSONParse(text) ==
    IF text = ManifestExpress
    THEN [ok |-> TRUE, hasDependencies |-> TRUE, dependencies |-> <<"express">>,
          hasDevDependencies |-> FALSE, devDependencies |-> <<>>]
    ELSE IF text = ManifestBoth
    THEN [ok |-> TRUE, hasDependencies |-> TRUE, dependencies |-> <<"express", "lodash">>,
          hasDevDependencies |-> TRUE, devDependencies |-> <<"jest", "lodash">>]
    ELSE IF text = ManifestDevOnly
    THEN [ok |-> TRUE, hasDependencies |-> FALSE, dependencies |-> <<>>,
          hasDevDependencies |-> TRUE, devDependencies |-> <<"jest", "express">>]
    ELSE IF text = ManifestPlain
    THEN [ok |-> TRUE, hasDependencies |-> FALSE, dependencies |-> <<>>,
          hasDevDependencies |-> FALSE, devDependencies |-> <<>>]
    ELSE [ok |-> FALSE, hasDependencies |-> FALSE, dependencies |-> <<>>,
          hasDevDependencies |-> FALSE, devDependencies |-> <<>>]

packageJsonDependencies(file) ==
    IF ToLowerCase(Basename(file.path)) = "package.json"
    THEN LET packageJson == JSONParse(file.content)
         IN  IF ~packageJson.ok THEN <<>>
             ELSE (IF packageJson.hasDependencies THEN packageJson.dependencies ELSE <<>>)
                  \o (IF packageJson.hasDevDependencies
                      THEN packageJson.devDependencies ELSE <<>>)
    ELSE <<>>

\* line.trim().split('==')[0].split('>=')[0].split('<=')[0]
requirementName(line) ==
    Split(Split(Split(Trim(line), "==")[1], ">=")[1], "<=")[1]

RECURSIVE requirementNames(_)
requirementNames(lines) ==
    IF lines = <<>> THEN <<>>
    ELSE LET dep == requirementName(Head(lines))
         IN  (IF dep # "" /\ ~StartsWith(dep, "#") THEN <<dep>> ELSE <<>>)
             \o requirementNames(Tail(lines))

requirementsDependencies(file) ==
    IF Includes(ToLowerCase(file.path), "requirements.txt")
    THEN requirementNames(Split(file.content, "\n"))
    ELSE <<>>

\* The dependencies array after the loop over the records
RECURSIVE collectDependencies(_)
collectDependencies(infos) ==
    IF infos = <<>> THEN <<>>
    ELSE packageJsonDependencies(Head(infos)) \o requirementsDependencies(Head(infos))
         \o collectDependencies(Tail(infos))

IsNotUnknown(lang) == lang # "Unknown"
IsMain(file) == file.isMainFile
IsSubdirectory(dir) == dir # "" /\ dir # "."

RECURSIVE SumSizes(_)
SumSizes(infos) == IF infos = <<>> THEN 0 ELSE Head(infos).size + SumSizes(Tail(infos))

\* analyzeProjectStructure returning the collected dependencies as they are
analyzeProjectStructureNoSet(infos) ==
    LET languages == Unique([k \in 1..Len(infos) |-> infos[k].language])
        mainFiles == [k \in 1..Len(SelectSeq(infos, IsMain)) |-> SelectSeq(infos, IsMain)[k].path]
    IN  [totalFiles   |-> Len(infos),
         totalSize    |-> SumSizes(infos),
         languages    |-> SelectSeq(languages, IsNotUnknown),
         mainFiles    |-> mainFiles,
         dependencies |-> collectDependencies(infos),
         frameworks   |-> <<>>,
         projectType  |-> determineProjectType(infos, languages),
         structure    |-> [directories    |->
                               SelectSeq(Unique([k \in 1..Len(infos) |-> Dirname(infos[k].path)]),
                                         IsSubdirectory),
                           importantFiles |-> mainFiles,
                           configFiles |-> <<>>, sourceFiles |-> <<>>,
                           testFiles |-> <<>>, documentationFiles |-> <<>>]]

analyzeProjectStructure(infos) ==
    LET languages == Unique([k \in 1..Len(infos) |-> infos[k].language])
        mainFiles == [k \in 1..Len(SelectSeq(infos, IsMain)) |-> SelectSeq(infos, IsMain)[k].path]
    IN  [totalFiles   |-> Len(infos),
         totalSize    |-> SumSizes(infos),
         languages    |-> SelectSeq(languages, IsNotUnknown),
         mainFiles    |-> mainFiles,
         dependencies |-> Unique(collectDependencies(infos)),
         frameworks   |-> <<>>,
         projectType  |-> determineProjectType(infos, languages),
         structure    |-> [directories    |->
                               SelectSeq(Unique([k \in 1..Len(infos) |-> Dirname(infos[k].path)]),
                                         IsSubdirectory),
                           importantFiles |-> mainFiles,
                           configFiles |-> <<>>, sourceFiles |-> <<>>,
                           testFiles |-> <<>>, documentationFiles |-> <<>>]]

(***************************************************************************)
(* CodebaseAnalyzer.createCodeChunks                                       *)
(***************************************************************************)
maxTokensPerChunk == 5000

\* Math.ceil(text.length / 4)
estimateTokenCount(text) == (Len(text) + 3) \div 4

\* The comparator with the sizes of equal-priority files compared ascending
compareFilesAscending(a, b) ==
    IF a.isMainFile /\ ~b.isMainFile THEN -1
    ELSE IF ~a.isMainFile /\ b.isMainFile THEN 1
    ELSE a.size - b.size

\* The comparator that leaves two files of equal priority in the order they
\* were in
compareFilesEntryStable(a, b) ==
    IF a.isMainFile /\ ~b.isMainFile THEN -1
    ELSE IF ~a.isMainFile /\ b.isMainFile THEN 1
    ELSE IF a.isMainFile /\ b.isMainFile THEN 0
    ELSE b.size - a.size

\* The comparator handed to sort: negative when a goes before b
compareFiles(a, b) ==
    IF a.isMainFile /\ ~b.isMainFile THEN -1
    ELSE IF ~a.isMainFile /\ b.isMainFile THEN 1
    ELSE b.size - a.size

\* x put into the sorted list after every element that does not go after it
RECURSIVE InsertSorted(_, _)
InsertSorted(sorted, x) ==
    IF sorted = <<>> THEN <<x>>
    ELSE IF compareFiles(Head(sorted), x) <= 0
    THEN <<Head(sorted)>> \o InsertSorted(Tail(sorted), x)
    ELSE <<x>> \o sorted

\* Array.prototype.sort, which is stable, with compareFiles
RECURSIVE SortFiles(_)
SortFiles(infos) ==
    IF infos = <<>> THEN <<>>
    ELSE InsertSorted(SortFiles(SubSeq(infos, 1, Len(infos) - 1)), infos[Len(infos)])

RECURSIVE JoinStrings(_, _)
JoinStrings(list, sep) ==
    IF list = <<>> THEN ""
    ELSE IF Len(list) = 1 THEN list[1]
    ELSE list[1] \o sep \o JoinStrings(Tail(list), sep)

createChunk(files, totalTokens, chunkIndex) ==
    LET languages    == Unique([k \in 1..Len(files) |-> files[k].language])
        hasMainFiles == \E k \in 1..Len(files) : files[k].isMainFile
    IN  [files       |-> files,
         totalTokens |-> totalTokens,
         chunkIndex  |-> chunkIndex,
         description |-> "Chunk " \o ToString(chunkIndex + 1)
                         \o (IF hasMainFiles THEN " (contains main files)" ELSE "")
                         \o " - " \o JoinStrings(languages, ", ") \o " files"]

NoChunks == [chunks |-> <<>>, currentChunk |-> <<>>, currentTokens |-> 0, chunkIndex |-> 0]

\* Closing the running chunk: it is pushed and the running state reset
CloseChunk(st, files, totalTokens) ==
    [chunks        |-> Append(st.chunks, createChunk(files, totalTokens, st.chunkIndex)),
     currentChunk  |-> <<>>,
     currentTokens |-> 0,
     chunkIndex    |-> st.chunkIndex + 1]

\* The loop body that isolates an oversized file without resetting the
\* running chunk
ChunkFileNoReset(st, file) ==
    LET fileTokens == estimateTokenCount(file.content)
        closed     == IF st.currentTokens + fileTokens > maxTokensPerChunk
                         /\ Len(st.currentChunk) > 0
                      THEN CloseChunk(st, st.currentChunk, st.currentTokens) ELSE st
        appended   == [closed EXCEPT !.currentChunk  = Append(@, file),
                                     !.currentTokens = @ + fileTokens]
    IN  IF fileTokens > maxTokensPerChunk
        THEN [appended EXCEPT !.chunks = Append(@, createChunk(<<file>>, fileTokens,
                                                               appended.chunkIndex)),
                              !.chunkIndex = @ + 1]
        ELSE appended

\* The loop body that closes the running chunk only once it is over budget
ChunkFileLateClose(st, file) ==
    LET fileTokens == estimateTokenCount(file.content)
        closed     == IF st.currentTokens > maxTokensPerChunk /\ Len(st.currentChunk) > 0
                      THEN CloseChunk(st, st.currentChunk, st.currentTokens) ELSE st
        appended   == [closed EXCEPT !.currentChunk  = Append(@, file),
                                     !.currentTokens = @ + fileTokens]
    IN  IF fileTokens > maxTokensPerChunk
        THEN CloseChunk(appended, <<file>>, fileTokens)
        ELSE appended

\* The loop body that lets an oversized file join the running chunk and
\* closes the two together
ChunkFileOversizedWithRunning(st, file) ==
    LET fileTokens == estimateTokenCount(file.content)
        closed     == IF st.currentTokens + fileTokens > maxTokensPerChunk
                         /\ Len(st.currentChunk) > 0
                         /\ fileTokens <= maxTokensPerChunk
                      THEN CloseChunk(st, st.currentChunk, st.currentTokens) ELSE st
        appended   == [closed EXCEPT !.currentChunk  = Append(@, file),
                                     !.currentTokens = @ + fileTokens]
    IN  IF fileTokens > maxTokensPerChunk
        THEN CloseChunk(appended, appended.currentChunk, appended.currentTokens)
        ELSE appended

\* The loop body that closes the running chunk as soon as a file would fill
\* the budget exactly
ChunkFileClosesAtBudget(st, file) ==
    LET fileTokens == estimateTokenCount(file.content)
        closed     == IF st.currentTokens + fileTokens >= maxTokensPerChunk
                         /\ Len(st.currentChunk) > 0
                      THEN CloseChunk(st, st.currentChunk, st.currentTokens) ELSE st
        appended   == [closed EXCEPT !.currentChunk  = Append(@, file),
                                     !.currentTokens = @ + fileTokens]
    IN  IF fileTokens > maxTokensPerChunk
        THEN CloseChunk(appended, <<file>>, fileTokens)
        ELSE appended

\* The body of the loop over the sorted files
ChunkFile(st, file) ==
    LET fileTokens == estimateTokenCount(file.content)
        closed     == IF st.currentTokens + fileTokens > maxTokensPerChunk
                         /\ Len(st.currentChunk) > 0
                      THEN CloseChunk(st, st.currentChunk, st.currentTokens) ELSE st
        appended   == [closed EXCEPT !.currentChunk  = Append(@, file),
                                     !.currentTokens = @ + fileTokens]
    IN  IF fileTokens > maxTokensPerChunk
        THEN CloseChunk(appended, <<file>>, fileTokens)
        ELSE appended

RECURSIVE ChunkFiles(_, _)
ChunkFiles(st, sortedFiles) ==
    IF sortedFiles = <<>> THEN st
    ELSE ChunkFiles(ChunkFile(st, Head(sortedFiles)), Tail(sortedFiles))

\* The chunks createCodeChunks returns for the already sorted records
createCodeChunks(sortedFiles) ==
    LET st == ChunkFiles(NoChunks, sortedFiles)
    IN  IF Len(st.currentChunk) > 0
        THEN CloseChunk(st, st.currentChunk, st.currentTokens).chunks
        ELSE st.chunks

(***************************************************************************)
(* Analysis and chunking of a list of loaded records                       *)
(***************************************************************************)
MaxProjectFiles == 3
MaxChunkFiles == 3

RequirementsText == "flask==2.0\n# pinned\n\nrequests>=2.1\nflask\n"

\* Files of projects of the kinds determineProjectType tells apart
ProjectPool == <<
    FileInfo("package.json", ManifestBoth, Len(ManifestBoth)),
    FileInfo("tools/package.json", ManifestDevOnly, Len(ManifestDevOnly)),
    FileInfo("broken/package.json", ManifestBroken, Len(ManifestBroken)),
    FileInfo("app.tsx", "export const App = 1", 20),
    FileInfo("view.jsx", "export const View = 1", 21),
    FileInfo("widget.vue", "<template/>", 11),
    FileInfo("next.config.js", "module.exports = {}", 19),
    FileInfo("requirements.txt", RequirementsText, Len(RequirementsText)),
    FileInfo("setup.py", "setup()", 7),
    FileInfo("manage.py", "main()", 6),
    FileInfo("pom.xml", "<project/>", 10),
    FileInfo("build.gradle", "plugins {}", 10),
    FileInfo("go.mod", "module m", 8),
    FileInfo("Cargo.toml", "[package]", 9),
    FileInfo("pubspec.yaml", "name: app", 9),
    FileInfo("src/main.rs", "fn main() {}", 12),
    FileInfo("data.xyz", "1 2 3", 5) >>

\* The elements of pool at the places in S, in ascending or descending order
RECURSIVE Pick(_, _, _)
Pick(pool, S, ascending) ==
    IF S = {} THEN <<>>
    ELSE LET lo == CHOOSE i \in S : \A j \in S : i <= j
             hi == CHOOSE i \in S : \A j \in S : i >= j
         IN  IF ascending THEN <<pool[lo]>> \o Pick(pool, S \ {lo}, ascending)
             ELSE <<pool[hi]>> \o Pick(pool, S \ {hi}, ascending)

RECURSIVE SubsetsUpTo(_, _)
SubsetsUpTo(n, k) ==
    IF k = 0 THEN {{}}
    ELSE LET smaller == SubsetsUpTo(n, k - 1)
         IN  smaller \cup {S \cup {i} : S \in smaller, i \in 1..n}

ProjectInputs ==
    {Pick(ProjectPool, S, asc) :
        S \in SubsetsUpTo(Len(ProjectPool), MaxProjectFiles), asc \in BOOLEAN}

\* A text of n characters
RECURSIVE Text(_)
Text(n) ==
    IF n = 0 THEN ""
    ELSE IF n % 2 = 1 THEN "x" \o Text(n - 1)
    ELSE LET half == Text(n \div 2) IN half \o half

\* Files whose token estimates lie around maxTokensPerChunk; uni.txt holds
\* characters of three bytes each, so its size is three times its length
ChunkPool == <<
    FileInfo("index.js", Text(10), 10),
    FileInfo("util.js", Text(100), 100),
    FileInfo("helper.js", Text(50), 50),
    FileInfo("a.js", Text(12000), 12000),
    FileInfo("b.js", Text(8000), 8000),
    FileInfo("c.js", Text(8004), 8004),
    FileInfo("big.js", Text(20004), 20004),
    FileInfo("README.md", Text(20001), 20001),
    FileInfo("uni.txt", Text(8000), 24000) >>

\* The lists of at most k different elements of pool, in every order
RECURSIVE ListsUpTo(_, _)
ListsUpTo(pool, k) ==
    IF k = 0 THEN {<<>>}
    ELSE LET shorter == ListsUpTo(pool, k - 1)
         IN  shorter \cup {Append(l, pool[i]) :
                              l \in {s \in shorter : Len(s) = k - 1},
                              i \in 1..Len(pool)}

HasNoRepeat(list) == \A i, j \in 1..Len(list) : list[i] = list[j] => i = j

ChunkInputs == {l \in ListsUpTo(ChunkPool, MaxChunkFiles) : HasNoRepeat(l)}

InitLoaded(inputs) ==
    /\ ws = WithoutGitignore(TreeScenario)
    /\ rules = <<>>
    /\ allFiles = <<>>
    /\ lastQuery = NoQuery
    /\ pc = "loaded"
    /\ inputInfos \in inputs
    /\ fileInfos = inputInfos
    /\ analyses = <<>>
    /\ chunks = <<>>
    /\ InitNotGenerating
    /\ InitHost({DefaultHost})

InitAnalyze == InitLoaded(ProjectInputs)

InitChunk == InitLoaded(ChunkInputs)

\* analyzeProjectStructure on the array as it is: first when the records are
\* loaded and, for comparison, once more after chunking
AnalyzeProjectStructure ==
    /\ pc \in {"loaded", "chunked"}
    /\ analyses' = Append(analyses, analyzeProjectStructure(fileInfos))
    /\ pc' = IF pc = "loaded" THEN "analyzed" ELSE "reanalyzed"
    /\ UNCHANGED <<discoverVars, inputInfos, fileInfos, chunks, generateVars, hostVars>>

CreateCodeChunks ==
    /\ pc = "analyzed"
    /\ fileInfos' = SortFiles(fileInfos)
    /\ chunks' = createCodeChunks(fileInfos')
    /\ pc' = "chunked"
    /\ UNCHANGED <<discoverVars, inputInfos, analyses, generateVars, hostVars>>

NextAnalyze == AnalyzeProjectStructure \/ CreateCodeChunks

SpecAnalyze == InitAnalyze /\ [][NextAnalyze]_vars

SpecChunk == InitChunk /\ [][NextAnalyze]_vars

(***************************************************************************)
(* Properties of chunking                                                  *)
(***************************************************************************)
Chunked == pc \in {"chunked", "reanalyzed"}

RECURSIVE ConcatFiles(_)
ConcatFiles(cs) == IF cs = <<>> THEN <<>> ELSE Head(cs).files \o ConcatFiles(Tail(cs))

Occurrences(x, list) == Cardinality({k \in 1..Len(list) : list[k] = x})

RECURSIVE SumTokens(_)
SumTokens(files) ==
    IF files = <<>> THEN 0
    ELSE estimateTokenCount(Head(files).content) + SumTokens(Tail(files))

IsOversizedSingle(chunk) ==
    Len(chunk.files) = 1 /\ estimateTokenCount(chunk.files[1].content) > maxTokensPerChunk

\* C3: the batches of createCodeChunks partition the input: their file lists,
\* concatenated in batch order, are the sorted array of records, which holds
\* every input record exactly once.
C3_BatchesPartitionInput ==
    Chunked =>
        /\ ConcatFiles(chunks) = fileInfos
        /\ Len(fileInfos) = Len(inputInfos)
        /\ \A k \in 1..Len(inputInfos) :
              Occurrences(inputInfos[k], ConcatFiles(chunks)) = 1

\* C3 witness: a chunked input of several files, one of them oversized and
\* isolated after a batch that had been accumulating.
C3_Witness ==
    /\ Chunked
    /\ Len(chunks) >= 3
    /\ \E k \in 2..Len(chunks) : IsOversizedSingle(chunks[k])

\* C4: every batch other than a single file whose own estimate exceeds
\* maxTokensPerChunk has per-file estimates summing to at most maxTokensPerChunk.
C4_BatchesWithinBudget ==
    Chunked =>
        \A k \in 1..Len(chunks) :
            ~IsOversizedSingle(chunks[k]) => SumTokens(chunks[k].files) <= maxTokensPerChunk

\* C4 witness: a batch of several files filled exactly to the budget and closed
\* before the next file.
C4_Witness ==
    /\ Chunked
    /\ \E k \in 1..Len(chunks) :
          /\ k < Len(chunks)
          /\ Len(chunks[k].files) >= 2
          /\ SumTokens(chunks[k].files) = maxTokensPerChunk

\* C5: in the packed order every entry file precedes every non-entry file and
\* the non-entry files are in descending size; entry file A of size 10 and
\* non-entry files B of size 100 and C of size 50 are packed A, B, C.
C5_EntryFirstThenDescendingSize ==
    Chunked =>
        /\ \A i, j \in 1..Len(fileInfos) :
              (i < j /\ ~fileInfos[i].isMainFile) =>
                  /\ ~fileInfos[j].isMainFile
                  /\ fileInfos[i].size >= fileInfos[j].size
        /\ {inputInfos[k].path : k \in 1..Len(inputInfos)} = {"index.js", "util.js", "helper.js"}
              => [k \in 1..Len(fileInfos) |-> fileInfos[k].path]
                     = <<"index.js", "util.js", "helper.js">>

\* C5 witness: the three files of the example, loaded in the order C, B, A.
C5_Witness ==
    /\ Chunked
    /\ [k \in 1..Len(inputInfos) |-> inputInfos[k].path] = <<"helper.js", "util.js", "index.js">>
    /\ [k \in 1..Len(inputInfos) |-> inputInfos[k].size] = <<50, 100, 10>>
    /\ [k \in 1..Len(inputInfos) |-> inputInfos[k].isMainFile] = <<FALSE, FALSE, TRUE>>

(***************************************************************************)
(* Properties of the analysis                                              *)
(***************************************************************************)
FileNames == {ToLowerCase(Basename(inputInfos[k].path)) : k \in 1..Len(inputInfos)}

SomePathEndsWith(ext) == \E k \in 1..Len(inputInfos) : EndsWith(inputInfos[k].path, ext)

\* The rules of the cascade in order, for a project with the given file
\* names: when a rule applies, and its label
Cascade(names) ==
    LET node   == "package.json" \in names
        python == "setup.py" \in names \/ "requirements.txt" \in names
    IN  << [when  |-> node /\ (SomePathEndsWith(".jsx") \/ SomePathEndsWith(".tsx")),
            label |-> "React Application"],
           [when  |-> node /\ SomePathEndsWith(".vue"), label |-> "Vue.js Application"],
           [when  |-> node /\ ("next.config.js" \in names \/ "next.config.ts" \in names),
            label |-> "Next.js Application"],
           [when  |-> node, label |-> "Node.js Application"],
           [when  |-> python /\ "manage.py" \in names, label |-> "Django Application"],
           [when  |-> python, label |-> "Python Project"],
           [when  |-> "pom.xml" \in names, label |-> "Maven Java Project"],
           [when  |-> "build.gradle" \in names, label |-> "Gradle Java Project"],
           [when  |-> "go.mod" \in names, label |-> "Go Module"],
           [when  |-> "cargo.toml" \in names, label |-> "Rust Project"],
           [when  |-> "pubspec.yaml" \in names, label |-> "Flutter Application"] >>

\* C6: determineProjectType returns the label of the first rule of the cascade
\* that applies, whatever later rules apply too; {package.json, app.tsx} is a
\* React Application, {requirements.txt, manage.py} a Django Application and
\* {go.mod} a Go Module.
C6_FirstCascadeRuleWins ==
    Len(analyses) >= 1 =>
        LET names    == FileNames
            cascade  == Cascade(names)
            applying == {k \in 1..Len(cascade) : cascade[k].when}
            first    == CHOOSE k \in applying : \A j \in applying : k <= j
        IN  \A n \in 1..Len(analyses) :
                /\ applying # {} => analyses[n].projectType = cascade[first].label
                /\ names = {"package.json", "app.tsx"}
                      => analyses[n].projectType = "React Application"
                /\ names = {"requirements.txt", "manage.py"}
                      => analyses[n].projectType = "Django Application"
                /\ names = {"go.mod"} => analyses[n].projectType = "Go Module"

\* C6 witness: an analysed project holding package.json, a .tsx file and
\* requirements.txt, where a later rule applies as well as the first.
C6_Witness ==
    /\ Len(analyses) >= 1
    /\ FileNames = {"package.json", "app.tsx", "requirements.txt"}
    /\ analyses[1].projectType = "React Application"

\* C7: the reported dependency list holds no name twice, and a second analysis
\* of the same records reports the same set of dependencies.
C7_DependenciesAreASet ==
    /\ \A n \in 1..Len(analyses) : HasNoRepeat(analyses[n].dependencies)
    /\ Len(analyses) = 2 =>
          Range(analyses[1].dependencies) = Range(analyses[2].dependencies)

\* C7 witness: records analysed twice whose manifests name a dependency more
\* than once.
C7_Witness ==
    /\ Len(analyses) = 2
    /\ ~HasNoRepeat(collectDependencies(inputInfos))
    /\ fileInfos # inputInfos
    /\ Len(analyses[2].dependencies) >= 3

-----------------------------------------------------------------------------
(* README generation: ReadmeGenerator and the PerplexityClient boundary.     *)
(* generateReadme suspends at each generateReadmeChunk call and at each      *)
(* delay between calls; every suspension point is a value of pc.             *)

\* The number of files of a generated project
MaxGenerateFiles == 4

GeneratePool == <<
    FileInfo("main.py", Text(40), 40),
    FileInfo("index.js", Text(10), 10),
    FileInfo("util.js", Text(100), 100),
    FileInfo("big.js", Text(20004), 20004),
    FileInfo("bundle.js", Text(20008), 20008) >>

GenerateInputs == {l \in ListsUpTo(GeneratePool, MaxGenerateFiles) :
                      HasNoRepeat(l) /\ SortFiles(l) = l}

\* choice.message.content of a response with status 200
ServiceContents == {"# Demo\n\nA small project.\n", " \n"}

\* What makeApiRequest and extractContentFromResponse throw
ErrorMessages == {"API rate limit exceeded. Please wait and try again.",
                  "No message content in API response choice"}

\* What toLocaleDateString may return
Dates == {"11/3/2026"}

extractContentFromResponse(content) == Trim(content)

\* A JavaScript number that is a quotient of two integers, in lowest terms
RECURSIVE GCD(_, _)
GCD(a, b) == IF b = 0 THEN a ELSE GCD(b, a % b)

Ratio(num, den) == [num |-> num \div GCD(num, den), den |-> den \div GCD(num, den)]

GenerationProgress(message, percentage) ==
    [stage |-> "generating", message |-> message, percentage |-> Ratio(percentage, 1)]

\* The fallback that gives the first chunk the placeholder of the later ones
createFallbackContentPlaceholderOnly(chunk, isFirstChunk) ==
    "\n## Additional Components\n\n*Additional project components detected but could not be processed by AI.*"

createFallbackContent(chunk, isFirstChunk) ==
    IF isFirstChunk
    THEN "# Project README\n\n## Overview\nThis is an auto-generated README for your project.\n\n## Files Analyzed\n"
         \o JoinStrings([k \in 1..Len(chunk.files) |-> "- " \o chunk.files[k].path], "\n")
         \o "\n\n*Note: This content was generated as a fallback due to AI processing issues.*"
    ELSE "\n## Additional Components\n\n*Additional project components detected but could not be processed by AI.*"

addMetadataFooter(analysis, date) ==
    "\n\n---\n\n*This README was automatically generated by README AI Generator*\n\n**Analysis Summary:**\n- Project Type: "
    \o analysis.projectType
    \o "\n- Files Analyzed: " \o ToString(analysis.totalFiles)
    \o "\n- Languages: " \o JoinStrings(analysis.languages, ", ")
    \o "\n- Dependencies: " \o ToString(Len(analysis.dependencies)) \o " found\n\n*Generated on "
    \o date \o "*"

RECURSIVE AppendAdditional(_, _, _)
AppendAdditional(finalReadme, texts, k) ==
    IF k > Len(texts) THEN finalReadme
    ELSE AppendAdditional(
             IF texts[k] # "" /\ Trim(texts[k]) # ""
             THEN finalReadme \o "\n\n" \o texts[k] ELSE finalReadme,
             texts, k + 1)

assembleReadme(texts, analysis, date) ==
    AppendAdditional(IF Len(texts) > 0 THEN texts[1] ELSE "", texts, 2)
    \o addMetadataFooter(analysis, date)

\* analyzeCodebase has returned the analysis and the chunks of a project
InitGenerate ==
    /\ ws = WithoutGitignore(TreeScenario)
    /\ rules = <<>>
    /\ allFiles = <<>>
    /\ lastQuery = NoQuery
    /\ pc = "chunked"
    /\ inputInfos \in GenerateInputs
    /\ fileInfos = SortFiles(inputInfos)
    /\ analyses = <<analyzeProjectStructure(inputInfos)>>
    /\ chunks = createCodeChunks(fileInfos)
    /\ InitNotGenerating
    /\ InitHost({DefaultHost})

\* generateReadme up to the first suspension of processChunks
GenerateReadme ==
    /\ pc = "chunked"
    /\ progress' = <<GenerationProgress("Initializing AI generation...", 0)>>
    /\ generatedChunks' = <<>>
    /\ calls' = <<>>
    /\ iChunk' = 0
    /\ timers' = <<>>
    /\ pc' = "processChunks"
    /\ UNCHANGED <<discoverVars, analyzeVars, readme, hostVars>>

\* One turn of the loop up to the call of generateReadmeChunk
ProcessChunk ==
    /\ pc = "processChunks"
    /\ iChunk < Len(chunks)
    /\ progress' = Append(progress,
           GenerationProgress("Generating content for chunk " \o ToString(iChunk + 1)
                                  \o "/" \o ToString(Len(chunks)) \o "...",
                              (iChunk * 80) \div Len(chunks)))
    /\ calls' = Append(calls, [chunkIndex   |-> chunks[iChunk + 1].chunkIndex,
                               isFirstChunk |-> iChunk = 0,
                               outcome      |-> "pending",
                               text         |-> ""])
    /\ pc' = "awaitingCall"
    /\ UNCHANGED <<discoverVars, analyzeVars, iChunk, generatedChunks, readme, timers, hostVars>>

\* generateReadmeChunk returns the content of the response; a delay follows
\* unless the chunk is the last one
GenerateReadmeChunkReturns ==
    /\ pc = "awaitingCall"
    /\ \E content \in ServiceContents :
          LET generatedContent == extractContentFromResponse(content)
          IN  /\ calls' = [calls EXCEPT ![Len(calls)] =
                              [@ EXCEPT !.outcome = "returned", !.text = generatedContent]]
              /\ generatedChunks' = Append(generatedChunks, generatedContent)
    /\ IF iChunk < Len(chunks) - 1
       THEN pc' = "awaitingDelay" /\ iChunk' = iChunk
       ELSE pc' = "processChunks" /\ iChunk' = iChunk + 1
    /\ UNCHANGED <<discoverVars, analyzeVars, progress, readme, timers, hostVars>>

\* The call that throws out of processChunks and fails generateReadme
GenerateReadmeChunkThrowsUncaught ==
    /\ pc = "awaitingCall"
    /\ \E message \in ErrorMessages :
          calls' = [calls EXCEPT ![Len(calls)] =
                       [@ EXCEPT !.outcome = "thrown",
                                 !.text = "Failed to generate README chunk: " \o message]]
    /\ pc' = "generateReadmeFailed"
    /\ UNCHANGED <<discoverVars, analyzeVars, iChunk, generatedChunks, progress, readme, timers, hostVars>>

\* The catch that leaves the loop index alone, so that the chunk is sent again
GenerateReadmeChunkThrowsRetries ==
    /\ pc = "awaitingCall"
    /\ \E message \in ErrorMessages :
          calls' = [calls EXCEPT ![Len(calls)] =
                       [@ EXCEPT !.outcome = "thrown",
                                 !.text = "Failed to generate README chunk: " \o message]]
    /\ pc' = "processChunks"
    /\ UNCHANGED <<discoverVars, analyzeVars, iChunk, generatedChunks, progress, readme, timers, hostVars>>

\* generateReadmeChunk throws: the catch of processChunks pushes the fallback
\* and the loop goes on without a delay
GenerateReadmeChunkThrows ==
    /\ pc = "awaitingCall"
    /\ \E message \in ErrorMessages :
          calls' = [calls EXCEPT ![Len(calls)] =
                       [@ EXCEPT !.outcome = "thrown",
                                 !.text = "Failed to generate README chunk: " \o message]]
    /\ generatedChunks' = Append(generatedChunks,
                                 createFallbackContent(chunks[iChunk + 1], iChunk = 0))
    /\ iChunk' = iChunk + 1
    /\ pc' = "processChunks"
    /\ UNCHANGED <<discoverVars, analyzeVars, progress, readme, timers, hostVars>>

\* The timer of the delay between two calls fires
DelayElapsed ==
    /\ pc = "awaitingDelay"
    /\ timers' = Append(timers, [afterChunk |-> iChunk, milliseconds |-> 1000])
    /\ iChunk' = iChunk + 1
    /\ pc' = "processChunks"
    /\ UNCHANGED <<discoverVars, analyzeVars, generatedChunks, calls, progress, readme, hostVars>>

\* The loop is over: processChunks returns and generateReadme assembles
AssembleReadme ==
    /\ pc = "processChunks"
    /\ iChunk >= Len(chunks)
    /\ \E date \in Dates :
          readme' = assembleReadme(generatedChunks, analyses[1], date)
    /\ progress' = progress \o <<GenerationProgress("Assembling final README...", 90),
                                 GenerationProgress("README generation completed!", 100)>>
    /\ pc' = "generated"
    /\ UNCHANGED <<discoverVars, analyzeVars, iChunk, generatedChunks, calls, timers, hostVars>>

NextGenerate ==
    \/ GenerateReadme
    \/ ProcessChunk
    \/ GenerateReadmeChunkReturns
    \/ GenerateReadmeChunkThrows
    \/ DelayElapsed
    \/ AssembleReadme

SpecGenerate == InitGenerate /\ [][NextGenerate]_vars

\* Every call in flight returns or throws (the request has a timeout), every
\* timer fires and every continuation is run
FairSpecGenerate == SpecGenerate /\ WF_vars(NextGenerate)

-----------------------------------------------------------------------------
(* Properties of README generation *)

ProcessChunksReturned ==
    \/ pc = "processChunks" /\ iChunk >= Len(chunks)
    \/ pc = "generated"

PlaceholderSection ==
    "\n## Additional Components\n\n*Additional project components detected but could not be processed by AI.*"

\* A stub document that lists the paths of the files of chunk
IsStubListing(text, chunk) ==
    /\ StartsWith(text, "# Project README\n")
    /\ \A k \in 1..Len(chunk.files) :
          LET line == "\n- " \o chunk.files[k].path \o "\n"
          IN  \E at \in 1..Len(text) : SubSeq(text, at, at + Len(line) - 1) = line

\* C9: when processChunks returns, it returns one text per chunk, in the
\* order of the chunks: the text generateReadmeChunk returned where the call
\* returned, otherwise the fallback (for the first chunk a stub document that
\* lists the paths of the chunk's files, for a later chunk the placeholder
\* section); and a call was made for every chunk, whatever calls threw before.
C9_OneTextPerChunkInOrder ==
    ProcessChunksReturned =>
        /\ Len(generatedChunks) = Len(chunks)
        /\ Len(calls) = Len(chunks)
        /\ \A k \in 1..Len(chunks) :
              /\ calls[k].chunkIndex = chunks[k].chunkIndex
              /\ calls[k].outcome \in {"returned", "thrown"}
              /\ calls[k].outcome = "returned" => generatedChunks[k] = calls[k].text
              /\ calls[k].outcome = "thrown" =>
                    IF k = 1 THEN IsStubListing(generatedChunks[k], chunks[k])
                    ELSE generatedChunks[k] = PlaceholderSection

C9_Witness ==
    /\ ProcessChunksReturned
    /\ Len(chunks) = 3
    /\ Len(chunks[1].files) = 2
    /\ calls[1].outcome = "thrown"
    /\ calls[2].outcome = "thrown"
    /\ calls[3].outcome = "returned"

\* C10: with every call returning or throwing in the end, generateReadme
\* eventually returns a document, for every number of chunks and whichever
\* calls throw, and it never fails.
C10_GenerateReadmeCompletes ==
    /\ <>(pc = "generated" /\ readme # "")
    /\ [](pc # "generateReadmeFailed")

C10_Witness ==
    /\ pc = "generated"
    /\ readme # ""
    /\ Len(chunks) >= 2
    /\ \A k \in 1..Len(calls) : calls[k].outcome = "thrown"

-----------------------------------------------------------------------------
(* Properties of the rule order *)

MatchesADefault(p) == \E k \in 1..Len(defaultPatterns) : matchesPattern(p, defaultPatterns[k])

\* C19: a path that matches at least one built-in default pattern is ignored
\* whatever the .gitignore file holds, and discovery returns no such path.
C19_DefaultsCannotBeNegated ==
    /\ lastQuery.asked /\ MatchesADefault(lastQuery.path) => lastQuery.answer
    /\ pc = "discovered" => \A f \in Range(allFiles) : ~MatchesADefault(f)

\* C19 witness: the path asked about matches a default pattern and a negation
\* rule of the .gitignore file, and the answer is to ignore it.
C19_Witness ==
    /\ lastQuery.asked
    /\ lastQuery.answer
    /\ MatchesADefault(lastQuery.path)
    /\ \E k \in 1..Len(loadGitignoreRules(ws)) :
          /\ rules[k].isNegation
          /\ matchesPattern(lastQuery.path, rules[k].pattern)

-----------------------------------------------------------------------------
(* Properties of the traversal *)

\* The entries of a tree, each with its path from the root
RECURSIVE EntriesUnder(_, _)
EntriesUnder(tree, dir) ==
    IF dir \notin DOMAIN tree THEN {}
    ELSE UNION { {[path |-> JoinPath(dir, tree[dir][k].name), kind |-> tree[dir][k].kind]}
                 \cup (IF tree[dir][k].kind = "dir"
                       THEN EntriesUnder(tree, JoinPath(dir, tree[dir][k].name)) ELSE {})
                 : k \in 1..Len(tree[dir]) }

AllReadable(w) ==
    \A e \in EntriesUnder(w.dirs, "") : e.kind = "dir" => e.path \in DOMAIN w.dirs

\* The directories between the root and the path
Ancestors(p) == {SubSeq(p, 1, k - 1) : k \in {j \in 1..Len(p) : CharAt(p, j) = "/"}}

Discoverable(rs, e) ==
    /\ e.kind = "file"
    /\ ~isBinaryFile(e.path)
    /\ ~shouldIgnore(rs, e.path)
    /\ \A d \in Ancestors(e.path) : ~shouldIgnore(rs, d)

\* C20: in a tree whose directories can all be read, discovery returns a path
\* if and only if it is a regular file that is not binary, shouldIgnore is
\* false for it and false for every directory between the root and it.
C20_ReturnedIffNothingOnThePathIgnored ==
    pc = "discovered" /\ AllReadable(ws) =>
        \A e \in EntriesUnder(ws.dirs, "") :
            e.path \in Range(allFiles) <=> Discoverable(rules, e)

\* C20 witness: a file that a negation rule re-includes lies under an ignored
\* directory and is not returned, beside a file that is returned.
C20_Witness ==
    /\ pc = "discovered"
    /\ AllReadable(ws)
    /\ allFiles # <<>>
    /\ \E e \in EntriesUnder(ws.dirs, "") :
          /\ e.kind = "file"
          /\ ~isBinaryFile(e.path)
          /\ ~shouldIgnore(rules, e.path)
          /\ MatchingRules(rules, e.path) # {}
          /\ rules[LastMatching(rules, e.path)].isNegation
          /\ \E d \in Ancestors(e.path) : shouldIgnore(rules, d)
          /\ e.path \notin Range(allFiles)

-----------------------------------------------------------------------------
(* Properties of the excludePatterns setting *)

MatchesAnExclusion(h, p) ==
    \E k \in 1..Len(getAdditionalExclusions(h)) :
        matchesPattern(p, getAdditionalExclusions(h)[k])

MatchesANegation(rs, p) ==
    \E k \in 1..Len(rs) : rs[k].isNegation /\ matchesPattern(p, rs[k].pattern)

\* C12 as stated: every pattern of the excludePatterns setting is a rule that
\* is not a negation, so a path that matches such a pattern and no negation
\* rule gets the answer true from shouldIgnore and is not returned by discovery.
C12_ExcludePatternsAreRules ==
    /\ pc # "new" =>
          \A k \in 1..Len(getAdditionalExclusions(host)) :
              \E r \in Range(rules) :
                  r.pattern = getAdditionalExclusions(host)[k] /\ ~r.isNegation
    /\ lastQuery.asked /\ MatchesAnExclusion(host, lastQuery.path)
          /\ ~MatchesANegation(rules, lastQuery.path) => lastQuery.answer
    /\ pc = "discovered" =>
          \A f \in Range(allFiles) :
              MatchesAnExclusion(host, f) => MatchesANegation(rules, f)

-----------------------------------------------------------------------------
(* Properties of the calls to the generation service *)

\* C18: within one run of generateReadme one call is issued per chunk, in the
\* order of the chunk indexes and never twice for a chunk; only the newest call
\* can be in flight, so a call is never started before the one before it has
\* returned or thrown; and when the run is over every chunk has had its call.
C18_OneCallPerChunkOneAtATime ==
    /\ Len(calls) <= Len(chunks)
    /\ \A k \in 1..Len(calls) :
          /\ calls[k].chunkIndex = chunks[k].chunkIndex
          /\ calls[k].chunkIndex = k - 1
          /\ calls[k].outcome = "pending" => k = Len(calls) /\ pc = "awaitingCall"
    /\ pc = "generated" => Len(calls) = Len(chunks)

\* C18 witness: the call for the third chunk is in flight after the first call
\* threw and the second returned.
C18_Witness ==
    /\ pc = "awaitingCall"
    /\ Len(calls) = 3
    /\ calls[1].outcome = "thrown"
    /\ calls[2].outcome = "returned"
    /\ calls[3].outcome = "pending"

\* C17 as stated: between every two successive calls of one run the delay has
\* elapsed, whether the earlier call returned or threw: once the call for a
\* chunk has been issued, the timer set after the chunk before it has fired.
C17_DelayBetweenSuccessiveCalls ==
    \A k \in 2..Len(calls) :
        \E t \in Range(timers) :
            t.afterChunk = calls[k - 1].chunkIndex /\ t.milliseconds = 1000

-----------------------------------------------------------------------------
(* generateReadmeContent of the extension: generateReadme runs under a       *)
(* progress notification that the user can cancel; the cancellation handler  *)
(* rejects the promise of the notification and touches nothing else.         *)

\* What the user is shown; the pictograph that opens a message is left out
Information(message) == [kind |-> "information", message |-> message]
ErrorShown(message)  == [kind |-> "error", message |-> message]
Preview(content)     == [kind |-> "preview", message |-> content]

\* token.onCancellationRequested fires while generateReadme is suspended: the
\* rejection reaches the catch of generateReadmeContent, which shows a message
CancellationRequested ==
    /\ pc \in {"awaitingCall", "awaitingDelay"}
    /\ ~cancelled
    /\ cancelled' = TRUE
    /\ ui' = Append(ui, Information("README generation cancelled"))
    /\ UNCHANGED <<pc, discoverVars, analyzeVars, generateVars, host, disk>>

\* The continuation of generateReadme's promise: showReadmePreview opens the
\* document and asks what to do next, or reports that the preview failed
ShowReadmePreview ==
    /\ pc = "generated"
    /\ \E opened \in BOOLEAN :
          ui' = IF opened
                THEN ui \o <<Preview(readme),
                             Information("README generated successfully! What would you like to do?")>>
                ELSE Append(ui, ErrorShown("Failed to generate README: Failed to preview README: Unknown error"))
    /\ pc' = "previewed"
    /\ UNCHANGED <<discoverVars, analyzeVars, generateVars, host, cancelled, disk>>

NextHostGenerate ==
    \/ NextGenerate
    \/ CancellationRequested
    \/ ShowReadmePreview

SpecHostGenerate == InitGenerate /\ [][NextHostGenerate]_vars

PreviewShown(shown) == \E k \in 1..Len(shown) : shown[k].kind = "preview"

\* C16 as stated: once the user has cancelled during generation, no further
\* chunk is sent to the generation service and the preview is not shown.
C16_CancellationStopsTheRun ==
    [][cancelled => /\ Len(calls') = Len(calls)
                    /\ PreviewShown(ui') => PreviewShown(ui)]_vars

-----------------------------------------------------------------------------
(* The command readme.README: generateReadme of the extension up to the      *)
(* first suspension of analyzeCodebase                                        *)

\* The folder that is open in the editor has been removed from the disk
MissingWorkspace == [dirs |-> <<>>, hasGitignore |-> FALSE, gitignore |-> ""]

existsSync(w, p) == p \in DOMAIN w.dirs

ApiKeys == {Undefined, Defined(""), Defined("  "), Defined("pplx-0123456789")}

CommandHosts(w) ==
    {[DefaultHost EXCEPT !.workspaceFolder = f, !.rootExists = existsSync(w, ""), !.apiKeyEnv = k] :
        f \in BOOLEAN, k \in ApiKeys}

\* PerplexityClient's constructor: the key is what the environment holds
NewPerplexityClient(h) == [apiKey |-> h.apiKeyEnv]

\* !!apiKey && apiKey.trim() !== '' && apiKey !== process.env.PERPLEXITY_API_KEY
validateAPIKey(client, h) ==
    /\ client.apiKey.defined /\ client.apiKey.value # ""
    /\ Trim(client.apiKey.value) # ""
    /\ client.apiKey # h.apiKeyEnv

\* validateWorkspace that does not ask for the key
validateWorkspaceWithoutKey(h) ==
    IF ~h.rootExists
    THEN [isValid |-> FALSE, error |-> "Workspace root does not exist"]
    ELSE [isValid |-> TRUE, error |-> ""]

validateWorkspace(h) ==
    IF ~h.rootExists
    THEN [isValid |-> FALSE, error |-> "Workspace root does not exist"]
    ELSE IF ~validateAPIKey(NewPerplexityClient(h), h)
    THEN [isValid |-> FALSE,
          error   |-> "Invalid Perplexity API key. Please configure your API key in settings."]
    ELSE [isValid |-> TRUE, error |-> ""]

ScanningProgress ==
    [stage |-> "scanning", message |-> "Scanning workspace for files...",
     percentage |-> Ratio(10, 1)]

InitCommand ==
    /\ ws \in Workspaces \cup {MissingWorkspace}
    /\ pc = "idle"
    /\ rules = <<>>
    /\ allFiles = <<>>
    /\ lastQuery = NoQuery
    /\ inputInfos = <<>>
    /\ fileInfos = <<>>
    /\ analyses = <<>>
    /\ chunks = <<>>
    /\ InitNotGenerating
    /\ InitHost(CommandHosts(ws))

\* generateReadme of the extension up to the confirmation dialog
GenerateReadmeCommand ==
    /\ pc = "idle"
    /\ IF ~host.workspaceFolder
       THEN /\ ui' = Append(ui, ErrorShown("Please open a workspace or folder to generate a README."))
            /\ pc' = "done"
       ELSE /\ ui' = Append(ui, Information("Do you want us to read this codebase and make README for it?"))
            /\ pc' = "confirming"
    /\ UNCHANGED <<discoverVars, analyzeVars, generateVars, host, cancelled, disk>>

\* The dialog is answered: the analyzer is constructed and the workspace
\* validated; a valid workspace starts performAnalysis, whose analyzeCodebase
\* reports the scan and discovers the files before it first suspends
ConfirmationAnswered ==
    /\ pc = "confirming"
    /\ \E answer \in {"Yes, Generate README", "Cancel", "undefined"} :
          IF answer # "Yes, Generate README"
          THEN /\ pc' = "done"
               /\ UNCHANGED <<rules, allFiles, progress, ui>>
          ELSE /\ rules' = NewGitignoreParser(ws)
               /\ IF ~validateWorkspace(host).isValid
                  THEN /\ ui' = Append(ui, ErrorShown(validateWorkspace(host).error))
                       /\ pc' = "done"
                       /\ UNCHANGED <<allFiles, progress>>
                  ELSE /\ ui' = Append(ui, Information("Starting codebase analysis..."))
                       /\ progress' = <<ScanningProgress>>
                       /\ allFiles' = discoverFiles(ws, rules')
                       /\ pc' = "discovered"
    /\ UNCHANGED <<ws, lastQuery, analyzeVars, iChunk, generatedChunks, calls, readme, timers,
                   host, cancelled, disk>>

NextCommand == GenerateReadmeCommand \/ ConfirmationAnswered

SpecCommand == InitCommand /\ [][NextCommand]_vars

-----------------------------------------------------------------------------
(* Properties of the validation *)

CredentialMissing(h) == ~h.apiKeyEnv.defined \/ Trim(h.apiKeyEnv.value) = ""

NothingStarted ==
    /\ pc \in {"idle", "confirming", "done"}
    /\ progress = <<>>
    /\ allFiles = <<>>
    /\ fileInfos = <<>>
    /\ chunks = <<>>
    /\ calls = <<>>

\* C11: when the workspace root does not exist or no credential is set, the
\* run stops at validation: no discovery, no loading of files, no chunking and
\* no call of the generation service happens in that run.
C11_InvalidRunStopsAtValidation ==
    ~host.rootExists \/ CredentialMissing(host) => NothingStarted

\* C11 witness: a run over an existing root with no credential has been
\* confirmed by the user and has ended with the validation error.
C11_Witness ==
    /\ pc = "done"
    /\ host.rootExists
    /\ CredentialMissing(host)
    /\ Len(ui) = 2
    /\ ui[2] = ErrorShown("Invalid Perplexity API key. Please configure your API key in settings.")
    /\ NothingStarted

\* C15 as stated: when the workspace root exists and a non-empty credential is
\* set, validateWorkspace reports the workspace as valid, so the run is not
\* ended by a validation error and goes on to discovery.
C15_ValidWorkspaceReachesDiscovery ==
    host.rootExists /\ ~CredentialMissing(host) =>
        /\ \A k \in 1..Len(ui) : ui[k].kind = "error" => ui[k].message # validateWorkspace(host).error
        /\ Len(ui) = 2 => pc = "discovered"

-----------------------------------------------------------------------------
(* analyzeCodebase as one run: scan, load, analyse and chunk, with the        *)
(* events it hands to the progress callback; generateReadme may follow        *)

\* The number of files whose stat or read throws
MaxUnreadableFiles == 1

TreeMany == ("" :> [k \in 1..12 |-> F("m" \o ToString(k) \o ".js")])

TreeBig ==
    ("" :> <<F("index.js"), F("big.js"), D("db"), F("app.ts")>>) @@
    ("db" :> <<F("huge.sql")>>)

TreeEmpty == ("" :> <<D("dist")>>) @@ ("dist" :> <<F("bundle.js")>>)

PipelineWorkspaces ==
    {ScenarioWorkspace, WithoutGitignore(TreeMany), WithoutGitignore(TreeBig),
     WithoutGitignore(TreeEmpty)}

\* What readFileSync returns for a path; statSync's size is its length
ContentOf(p) ==
    CASE Basename(p) = "package.json" -> ManifestExpress
      [] Basename(p) = "index.js"     -> Text(10)
      [] Basename(p) = "app.ts"       -> Text(40)
      [] Basename(p) = "bundle.js"    -> Text(2000)
      [] Basename(p) = "big.js"       -> Text(20004)
      [] Basename(p) = "huge.sql"     -> Text(20008)
      [] OTHER                        -> Text(31 + 5 * Len(p))

SizeOf(p) == Len(ContentOf(p))

\* The values of the readmeGenerator.maxFileSize setting
MaxFileSizes == {1048576, 60}

FilePaths(w) == {e.path : e \in {x \in EntriesUnder(w.dirs, "") : x.kind = "file"}}

PipelineHosts(w) ==
    {[DefaultHost EXCEPT !.maxFileSize = s, !.unreadable = u] :
        s \in MaxFileSizes,
        u \in {x \in SUBSET FilePaths(w) : Cardinality(x) <= MaxUnreadableFiles}}

AnalyzingProgress(totalFiles) ==
    [stage |-> "analyzing",
     message |-> "Analyzing " \o ToString(totalFiles) \o " files...",
     percentage |-> Ratio(25, 1),
     totalFiles |-> totalFiles]

\* A percentage that falls as the files are processed
ProcessFilesPercentageOfRest(i, length) == Ratio(25 * length + 30 * (length - i), length)

\* A percentage that is the share of the files processed, not mapped into
\* the range of the stage
ProcessFilesPercentageOfWhole(i, length) == Ratio(100 * (i + 1), length)

\* 25 + (30 * (i + 1) / filePaths.length)
ProcessFilesPercentage(i, length) == Ratio(25 * length + 30 * (i + 1), length)

ProcessFilesProgress(filePaths, i) ==
    [stage |-> "analyzing",
     message |-> "Processing files... (" \o ToString(i + 1) \o "/"
                     \o ToString(Len(filePaths)) \o ")",
     percentage |-> ProcessFilesPercentage(i, Len(filePaths)),
     currentFile |-> Basename(filePaths[i + 1]),
     totalFiles |-> Len(filePaths),
     processedFiles |-> i + 1]

RECURSIVE ProcessFilesFrom(_, _, _, _)
RECURSIVE ProcessFilesFromUntilError(_, _, _, _)

\* The loop that ends at the first file whose stat or read throws
ProcessFilesFromUntilError(h, filePaths, i, done) ==
    IF i >= Len(filePaths) THEN done
    ELSE LET filePath == filePaths[i + 1]
         IN  IF filePath \in h.unreadable THEN done
             ELSE IF SizeOf(filePath) > h.maxFileSize
             THEN ProcessFilesFromUntilError(h, filePaths, i + 1, done)
             ELSE ProcessFilesFromUntilError(h, filePaths, i + 1,
                      [fileInfos |-> Append(done.fileInfos,
                                        FileInfo(filePath, ContentOf(filePath), SizeOf(filePath))),
                       events    |-> IF i % 10 = 0 \/ i = Len(filePaths) - 1
                                     THEN Append(done.events, ProcessFilesProgress(filePaths, i))
                                     ELSE done.events])

processFilesUntilError(h, filePaths) ==
    ProcessFilesFromUntilError(h, filePaths, 0, [fileInfos |-> <<>>, events |-> <<>>])

\* The loop of processFiles from index i on: a file whose stat or read throws
\* and a file above maxFileSize are passed over, with no event
ProcessFilesFrom(h, filePaths, i, done) ==
    IF i >= Len(filePaths) THEN done
    ELSE LET filePath == filePaths[i + 1]
         IN  IF filePath \in h.unreadable
             THEN ProcessFilesFrom(h, filePaths, i + 1, done)
             ELSE IF SizeOf(filePath) > h.maxFileSize
             THEN ProcessFilesFrom(h, filePaths, i + 1, done)
             ELSE ProcessFilesFrom(h, filePaths, i + 1,
                      [fileInfos |-> Append(done.fileInfos,
                                        FileInfo(filePath, ContentOf(filePath), SizeOf(filePath))),
                       events    |-> IF i % 10 = 0 \/ i = Len(filePaths) - 1
                                     THEN Append(done.events, ProcessFilesProgress(filePaths, i))
                                     ELSE done.events])

\* The records processFiles returns and the events it reports
processFiles(h, filePaths) ==
    ProcessFilesFrom(h, filePaths, 0, [fileInfos |-> <<>>, events |-> <<>>])

StructureProgress ==
    [stage |-> "analyzing", message |-> "Analyzing project structure...",
     percentage |-> Ratio(60, 1)]

ChunkingProgress(message, percentage) ==
    [stage |-> "chunking", message |-> message, percentage |-> Ratio(percentage, 1)]

\* The analyzer has been constructed on a workspace
InitPipeline ==
    /\ ws \in PipelineWorkspaces
    /\ rules = NewGitignoreParser(ws)
    /\ pc = "ready"
    /\ allFiles = <<>>
    /\ lastQuery = NoQuery
    /\ inputInfos = <<>>
    /\ fileInfos = <<>>
    /\ analyses = <<>>
    /\ chunks = <<>>
    /\ InitNotGenerating
    /\ InitHost(PipelineHosts(ws))

\* analyzeCodebase up to the await of discoverFiles
AnalyzeCodebaseScan ==
    /\ pc = "ready"
    /\ progress' = <<ScanningProgress>>
    /\ allFiles' = discoverFiles(ws, rules)
    /\ pc' = "scanned"
    /\ UNCHANGED <<ws, rules, lastQuery, analyzeVars, iChunk, generatedChunks, calls, readme,
                   timers, hostVars>>

\* analyzeCodebase from there up to the await of processFiles
AnalyzeCodebaseLoad ==
    /\ pc = "scanned"
    /\ LET loaded == processFiles(host, allFiles)
       IN  /\ progress' = progress \o <<AnalyzingProgress(Len(allFiles))>> \o loaded.events
           /\ inputInfos' = loaded.fileInfos
           /\ fileInfos' = loaded.fileInfos
    /\ pc' = "processed"
    /\ UNCHANGED <<discoverVars, analyses, chunks, iChunk, generatedChunks, calls, readme,
                   timers, hostVars>>

\* analyzeCodebase from there to its return
AnalyzeCodebaseFinish ==
    /\ pc = "processed"
    /\ analyses' = <<analyzeProjectStructure(fileInfos)>>
    /\ fileInfos' = SortFiles(fileInfos)
    /\ chunks' = createCodeChunks(fileInfos')
    /\ progress' = progress \o
           <<StructureProgress,
             ChunkingProgress("Creating code chunks for API processing...", 75),
             ChunkingProgress("Created " \o ToString(Len(chunks')) \o " chunks for processing", 85)>>
    /\ pc' = "chunked"
    /\ UNCHANGED <<discoverVars, inputInfos, iChunk, generatedChunks, calls, readme, timers,
                   hostVars>>

NextPipeline ==
    \/ AnalyzeCodebaseScan
    \/ AnalyzeCodebaseLoad
    \/ AnalyzeCodebaseFinish
    \/ NextGenerate

SpecPipeline == InitPipeline /\ [][NextPipeline]_vars

-----------------------------------------------------------------------------
(* Properties of a run of analyzeCodebase and of generateReadme *)

RatioLeq(a, b) == a.num * b.den <= b.num * a.den

\* C13: over a run of analyzeCodebase, and over a run of generateReadme, the
\* percentages handed to the progress callback never fall.
C13_PercentagesNeverFall ==
    \A k \in 1..(Len(progress) - 1) :
        RatioLeq(progress[k].percentage, progress[k + 1].percentage)

\* C13 witness: analyzeCodebase has returned after more than ten files of
\* which some were passed over, and a percentage that is not whole was reported.
C13_Witness ==
    /\ pc = "chunked"
    /\ Len(allFiles) > 10
    /\ Len(inputInfos) < Len(allFiles)
    /\ Len(progress) >= 7
    /\ \E k \in 1..Len(progress) : progress[k].percentage.den # 1

Loadable(h, p) == p \notin h.unreadable /\ SizeOf(p) <= h.maxFileSize

\* C14: processFiles returns one record for each input path whose stat and
\* read succeed and whose size is at most maxFileSize, in the order of the
\* input, each with the file's own content and size; other files are passed over.
C14_OneRecordPerLoadableFile ==
    pc \in {"processed", "chunked"} =>
        LET expected == SelectSeq(allFiles, LAMBDA p : Loadable(host, p))
        IN  /\ Len(inputInfos) = Len(expected)
            /\ \A k \in 1..Len(expected) :
                  /\ inputInfos[k].path = expected[k]
                  /\ inputInfos[k].content = ContentOf(expected[k])
                  /\ inputInfos[k].size = SizeOf(expected[k])

\* C14 witness: of the files given to processFiles one threw, one was too
\* large, and records of files on either side of them were returned.
C14_Witness ==
    /\ pc = "processed"
    /\ Len(inputInfos) >= 2
    /\ \E a, b, c, d \in 1..Len(allFiles) :
          /\ a < b /\ b < c /\ c < d
          /\ Loadable(host, allFiles[a])
          /\ allFiles[b] \in host.unreadable
          /\ SizeOf(allFiles[c]) > host.maxFileSize /\ allFiles[c] \notin host.unreadable
          /\ Loadable(host, allFiles[d])

\* ---------------------------------------------------------------------------
\* Oversized files and the boundary of the budget (createCodeChunks)

IsOversized(file) == estimateTokenCount(file.content) > maxTokensPerChunk

\* The position in the sorted records of the first file of chunk k
FirstPosition(cs, k) == Len(ConcatFiles(SubSeq(cs, 1, k - 1))) + 1

\* C21: every file whose own estimate exceeds maxTokensPerChunk is in a batch
\* that holds that file alone and whose token total is the file's estimate,
\* and the files sorted before it are all in the batches before that one.
C21_OversizedFileAlone ==
    Chunked =>
        \A k \in 1..Len(chunks) :
            \A j \in 1..Len(chunks[k].files) :
                IsOversized(chunks[k].files[j]) =>
                    /\ chunks[k].files = <<chunks[k].files[j]>>
                    /\ chunks[k].totalTokens
                           = estimateTokenCount(chunks[k].files[j].content)
                    /\ ConcatFiles(SubSeq(chunks, 1, k - 1))
                           = SubSeq(fileInfos, 1, FirstPosition(chunks, k) - 1)
                    /\ fileInfos[FirstPosition(chunks, k)] = chunks[k].files[j]

\* C21 witness: an oversized file met while smaller files were accumulating,
\* which are in the batch before its own.
C21_Witness ==
    /\ Chunked
    /\ \E k \in 2..Len(chunks) :
          /\ IsOversizedSingle(chunks[k])
          /\ ~IsOversizedSingle(chunks[k - 1])
          /\ Len(chunks[k - 1].files) >= 1

\* The loop body of a chunker that tests a file against the budget before it
\* appends it: an oversized file closes the running chunk and is pushed alone,
\* any other file is handled as createCodeChunks handles it.
ChunkFileCheckBeforeAppend(st, file) ==
    LET fileTokens == estimateTokenCount(file.content)
        flushed    == IF Len(st.currentChunk) > 0
                      THEN CloseChunk(st, st.currentChunk, st.currentTokens) ELSE st
        closed     == IF st.currentTokens + fileTokens > maxTokensPerChunk
                         /\ Len(st.currentChunk) > 0
                      THEN CloseChunk(st, st.currentChunk, st.currentTokens) ELSE st
    IN  IF fileTokens > maxTokensPerChunk
        THEN CloseChunk(flushed, <<file>>, fileTokens)
        ELSE [closed EXCEPT !.currentChunk  = Append(@, file),
                            !.currentTokens = @ + fileTokens]

RECURSIVE ChunkFilesCheckBeforeAppend(_, _)
ChunkFilesCheckBeforeAppend(st, sortedFiles) ==
    IF sortedFiles = <<>> THEN st
    ELSE ChunkFilesCheckBeforeAppend(ChunkFileCheckBeforeAppend(st, Head(sortedFiles)),
                                     Tail(sortedFiles))

createCodeChunksCheckBeforeAppend(sortedFiles) ==
    LET st == ChunkFilesCheckBeforeAppend(NoChunks, sortedFiles)
    IN  IF Len(st.currentChunk) > 0
        THEN CloseChunk(st, st.currentChunk, st.currentTokens).chunks
        ELSE st.chunks

\* A batch in which an oversized file is counted together with other files
CountsOversizedWithOthers(chunk) ==
    /\ \E j \in 1..Len(chunk.files) : IsOversized(chunk.files[j])
    /\ \/ Len(chunk.files) > 1
       \/ chunk.totalTokens # SumTokens(chunk.files)

\* C22: appending a file before testing whether it is oversized is not
\* observable: no batch counts an oversized file together with other files,
\* and the batches are those of the chunker that tests before it appends.
C22_AppendThenSplitNotObservable ==
    Chunked =>
        /\ \A k \in 1..Len(chunks) : ~CountsOversizedWithOthers(chunks[k])
        /\ chunks = createCodeChunksCheckBeforeAppend(fileInfos)

\* C22 witness: an oversized file was appended while a running batch of
\* smaller files existed, and a batch of smaller files follows it as well.
C22_Witness ==
    /\ Chunked
    /\ Len(chunks) >= 3
    /\ \E k \in 2..(Len(chunks) - 1) :
          /\ IsOversizedSingle(chunks[k])
          /\ ~IsOversizedSingle(chunks[k - 1])
          /\ ~IsOversizedSingle(chunks[k + 1])

\* C22 as stated: once the chunker has run, some input makes the order
\* observable, an oversized file being counted in a batch with other files or
\* the batches differing from those of the chunker that tests before it appends.
C22_AppendThenSplitObservable ==
    Chunked =>
        \E l \in ChunkInputs :
            LET sorted == SortFiles(l)
                cs     == createCodeChunks(sorted)
            IN  \/ \E k \in 1..Len(cs) : CountsOversizedWithOthers(cs[k])
                \/ cs # createCodeChunksCheckBeforeAppend(sorted)

\* C23: the running batch is closed before a file only when the file would
\* take its total strictly above the budget: of two consecutive batches whose
\* first is not an oversized file alone, the total of the first plus the
\* estimate of the first file of the second exceeds maxTokensPerChunk, and a
\* batch that a file fills to exactly maxTokensPerChunk keeps that file.
C23_ClosedOnlyWhenStrictlyOver ==
    Chunked =>
        /\ \A k \in 1..(Len(chunks) - 1) :
              ~IsOversizedSingle(chunks[k]) =>
                  chunks[k].totalTokens
                      + estimateTokenCount(chunks[k + 1].files[1].content)
                      > maxTokensPerChunk
        /\ \A p \in 1..(Len(fileInfos) - 1) :
              (/\ ~IsOversized(fileInfos[p]) /\ ~IsOversized(fileInfos[p + 1])
               /\ \E k \in 1..Len(chunks) :
                     /\ FirstPosition(chunks, k) = p
                     /\ SumTokens(SubSeq(fileInfos, p, p + 1)) <= maxTokensPerChunk)
              => \E k \in 1..Len(chunks) :
                     /\ FirstPosition(chunks, k) = p
                     /\ Len(chunks[k].files) >= 2

\* C23 witness: a batch that its last file filled to exactly the budget,
\* followed by another batch.
C23_Witness ==
    /\ Chunked
    /\ \E k \in 1..(Len(chunks) - 1) :
          /\ Len(chunks[k].files) >= 2
          /\ chunks[k].totalTokens = maxTokensPerChunk

\* ---------------------------------------------------------------------------
\* The order of the entry files among themselves (the comparator of sort)

\* The position of the record of path p in list
PositionOf(list, p) == CHOOSE k \in 1..Len(list) : list[k].path = p

\* C24: in the packed order the entry files are in descending size, whatever
\* the order they were discovered in: an entry file discovered before a larger
\* entry file is packed after it.
C24_EntryFilesByDescendingSize ==
    Chunked =>
        \A i, j \in 1..Len(fileInfos) :
            (i < j /\ fileInfos[i].isMainFile /\ fileInfos[j].isMainFile) =>
                fileInfos[i].size >= fileInfos[j].size

\* C24 witness: index.js (10 bytes) discovered before README.md (20001 bytes)
\* and packed after it.
C24_Witness ==
    /\ Chunked
    /\ \E i, j \in 1..Len(inputInfos) :
          /\ i < j
          /\ inputInfos[i].path = "index.js" /\ inputInfos[i].isMainFile
          /\ inputInfos[j].path = "README.md" /\ inputInfos[j].isMainFile
    /\ PositionOf(fileInfos, "README.md") < PositionOf(fileInfos, "index.js")

\* C24 as stated: any two entry files keep the relative order they were
\* discovered in.
C24_EntryFilesKeepDiscoveryOrder ==
    Chunked =>
        \A i, j \in 1..Len(inputInfos) :
            (i < j /\ inputInfos[i].isMainFile /\ inputInfos[j].isMainFile) =>
                PositionOf(fileInfos, inputInfos[i].path)
                    < PositionOf(fileInfos, inputInfos[j].path)

\* ---------------------------------------------------------------------------
\* The project type when no rule of the cascade applies

NoCascadeRuleApplies ==
    LET cascade == Cascade(FileNames)
    IN  \A k \in 1..Len(cascade) : ~cascade[k].when

\* C25: when no rule of the cascade applies, the project type is "<L> Project"
\* with L the first language of the reported language set, which leaves out
\* "Unknown", and "Software Project" when no file has a recognised language; a
\* project whose only file has an unrecognised extension is a "Software
\* Project" and one whose only file is a .rs file a "Rust Project".
C25_FallbackNamesFirstReportedLanguage ==
    (Len(analyses) >= 1 /\ NoCascadeRuleApplies) =>
        \A n \in 1..Len(analyses) :
            /\ analyses[n].projectType
                   = IF Len(analyses[n].languages) > 0
                     THEN analyses[n].languages[1] \o " Project"
                     ELSE "Software Project"
            /\ [k \in 1..Len(inputInfos) |-> inputInfos[k].path] = <<"data.xyz">>
                  => analyses[n].projectType = "Software Project"
            /\ [k \in 1..Len(inputInfos) |-> inputInfos[k].path] = <<"src/main.rs">>
                  => analyses[n].projectType = "Rust Project"

(***************************************************************************)
(* The stored rules of a .gitignore of a few lines, and `?` in a pattern   *)
(***************************************************************************)
MaxRuleLines == 1

LinePrefixes == <<"", "!", "!!">>
LineBodies   == <<"a?c", "dist">>
LineSuffixes == <<"", "/", "//">>

\* The lines a .gitignore is written from here: a body with or without
\* negation marks and trailing slashes, a comment and a pattern with both
\* wildcards between blanks
RuleLines ==
    {LinePrefixes[a] \o LineBodies[b] \o LineSuffixes[c] :
        a \in 1..Len(LinePrefixes), b \in 1..Len(LineBodies), c \in 1..Len(LineSuffixes)}
    \cup {"# a?c", " a?* "}

RECURSIVE ContentsUpTo(_)
ContentsUpTo(n) ==
    IF n = 0 THEN {""}
    ELSE LET shorter == ContentsUpTo(n - 1)
         IN  shorter \cup {c \o l \o "\n" : c \in shorter, l \in RuleLines}

RuleContents == ContentsUpTo(MaxRuleLines)

TreeGlob ==
    ("" :> <<F("abc"), F("abcd"), D("dist"), D("sub")>>) @@
    ("dist" :> <<F("x.js")>>) @@
    ("sub" :> <<F("abc"), F("a?c")>>)

RuleWorkspaces == {WithGitignore(TreeGlob, c) : c \in RuleContents}

InitRules ==
    /\ ws \in RuleWorkspaces
    /\ pc = "new"
    /\ rules = <<>>
    /\ allFiles = <<>>
    /\ lastQuery = NoQuery
    /\ inputInfos = <<>>
    /\ fileInfos = <<>>
    /\ analyses = <<>>
    /\ chunks = <<>>
    /\ InitNotGenerating
    /\ InitHost({DefaultHost})

SpecRules == InitRules /\ [][NextDiscover]_vars

Constructed == pc # "new"

\* The rules parsed from the file: those stored before the defaults
ParsedRules == SubSeq(rules, 1, Len(rules) - Len(defaultPatterns))

DefaultRules == SubSeq(rules, Len(rules) - Len(defaultPatterns) + 1, Len(rules))

TrimmedLines == {Trim(l) : l \in Range(Split(ws.gitignore, "\n"))}

\* The line a stored rule was parsed from, put together again
LineOf(rule) ==
    (IF rule.isNegation THEN "!" ELSE "") \o rule.pattern
        \o (IF rule.isDirectory THEN "/" ELSE "")

\* C26: a default pattern neither starts with `!` nor ends with `/`; a parsed
\* pattern is its trimmed line less one leading `!`, when the line has one,
\* and less one trailing `/`, when the line has one, so that it starts with `!`
\* only in a negation rule (a line that began `!!`) and ends with `/` only in a
\* directory rule (a line that ended `//`).
C26_OneMarkerStrippedAtEachEnd ==
    Constructed =>
        /\ \A k \in 1..Len(DefaultRules) :
              /\ ~StartsWith(DefaultRules[k].pattern, "!")
              /\ ~EndsWith(DefaultRules[k].pattern, "/")
        /\ \A k \in 1..Len(ParsedRules) :
              /\ StartsWith(ParsedRules[k].pattern, "!") => ParsedRules[k].isNegation
              /\ EndsWith(ParsedRules[k].pattern, "/") => ParsedRules[k].isDirectory
              /\ LineOf(ParsedRules[k]) \in TrimmedLines

\* C26 witness: the rules of a file with a line that begins `!!` and ends
\* `//`, whose stored pattern keeps one `!` and one `/`.
C26_Witness ==
    /\ Constructed
    /\ \E k \in 1..Len(ParsedRules) :
          /\ ParsedRules[k].isNegation /\ ParsedRules[k].isDirectory
          /\ StartsWith(ParsedRules[k].pattern, "!")
          /\ EndsWith(ParsedRules[k].pattern, "/")

\* C26 as stated: no stored pattern, parsed or default, starts with `!` or
\* ends with `/`.
C26_NoPatternKeepsAMarker ==
    Constructed =>
        \A k \in 1..Len(rules) :
            /\ ~StartsWith(rules[k].pattern, "!")
            /\ ~EndsWith(rules[k].pattern, "/")

\* A pattern matched as a wildcard against the full path, its final segment
\* and each of its segments
WildcardMatches(filePath, pattern) ==
    LET segments == Split(filePath, "/")
    IN  \/ RegexTest(pattern, filePath)
        \/ RegexTest(pattern, Basename(filePath))
        \/ \E k \in 1..Len(segments) : RegexTest(pattern, segments[k])

\* C27: a pattern containing `?`, with or without `*`, is matched as a
\* wildcard in which `?` stands for exactly one character, against the full
\* path, the final segment and each segment; with the one rule `a?c` the path
\* abc is ignored.
C27_QuestionMarkIsAWildcard ==
    lastQuery.asked =>
        /\ \A k \in 1..Len(rules) :
              Includes(rules[k].pattern, "?") =>
                  matchesPattern(lastQuery.path, rules[k].pattern)
                      = WildcardMatches(lastQuery.path, rules[k].pattern)
        /\ (ws.gitignore = "a?c\n" /\ lastQuery.path = "abc") => lastQuery.answer

-----------------------------------------------------------------------------
(* Properties of the progress events *)

IsProcessFilesEvent(e) == "processedFiles" \in DOMAIN e

\* The indices of the loop of processFiles at which the callback is due: the
\* last one and those the test i % 10 === 0 selects
DueIndices(length) == {i \in 0..(length - 1) : i % 10 = 0 \/ i = length - 1}

\* C28: for a non-empty list of paths processFiles invokes the progress
\* callback at the last file and at every tenth file, also when that file is
\* passed over.
C28_ProgressAlsoForSkippedFiles ==
    (pc \in {"processed", "chunked"} /\ Len(allFiles) > 0) =>
        \A i \in DueIndices(Len(allFiles)) :
            \E k \in 1..Len(progress) :
                /\ IsProcessFilesEvent(progress[k])
                /\ progress[k].processedFiles = i + 1

\* ---------------------------------------------------------------------------
\* The range of the percentages of each stage

Whole(n) == Ratio(n, 1)

Within(p, lo, hi) == RatioLeq(Whole(lo), p) /\ RatioLeq(p, Whole(hi))

\* C29: the percentage of every progress event lies in the range of its
\* stage: scanning is 10; analyzing lies within 25..60, the events of
\* processFiles above 25 and at most 55 and the analysis of the structure at
\* 60; chunking lies within 75..85; generating runs on a scale of its own from
\* 0 to 100, the chunks within 0..80, then 90 and 100.
C29_PercentageWithinStageRange ==
    \A k \in 1..Len(progress) :
        LET e == progress[k]
            p == e.percentage
        IN  /\ e.stage \in {"scanning", "analyzing", "chunking", "generating"}
            /\ e.stage = "scanning" => p = Whole(10)
            /\ e.stage = "analyzing" =>
                  /\ Within(p, 25, 60)
                  /\ IsProcessFilesEvent(e) => (p # Whole(25) /\ Within(p, 25, 55))
            /\ e.stage = "chunking" => Within(p, 75, 85)
            /\ e.stage = "generating" =>
                  \/ Within(p, 0, 80)
                  \/ p \in {Whole(90), Whole(100)}

\* C29 witness: analyzeCodebase has returned after more than ten files, with
\* events of processFiles strictly between 25 and 55 and the event at 60.
C29_Witness ==
    /\ pc = "chunked"
    /\ Len(allFiles) > 10
    /\ \E k \in 1..Len(progress) :
          /\ IsProcessFilesEvent(progress[k])
          /\ progress[k].percentage.den # 1
    /\ \E k \in 1..Len(progress) :
          progress[k].stage = "analyzing" /\ progress[k].percentage = Whole(60)

\* C29 as stated: scanning is 10, analyzing lies within 25..55, chunking
\* within 75..85 and generation and assembly within 85..100.
C29_PercentageWithinStatedRange ==
    \A k \in 1..Len(progress) :
        LET e == progress[k]
            p == e.percentage
        IN  /\ e.stage = "scanning" => p = Whole(10)
            /\ e.stage = "analyzing" => Within(p, 25, 55)
            /\ e.stage = "chunking" => Within(p, 75, 85)
            /\ e.stage = "generating" => Within(p, 85, 100)

(***************************************************************************)
(* ReadmeGenerator.saveReadme and the save of the extension               *)
(***************************************************************************)
MaxSaves == 2

\* Date.now() at the time of a save
Clock == {1000, 2000}

ReadmePath == "README.md"

BackupPath(now) == "README.backup." \o ToString(now) \o ".md"

\* fs.writeFileSync and the destination of fs.copyFileSync: the file is
\* created or its content replaced
WriteFile(d, name, content) ==
    [n \in DOMAIN d \cup {name} |-> IF n = name THEN content ELSE d[n]]

CopyFileError  == "EACCES: permission denied, copyfile"
WriteFileError == "EACCES: permission denied, open"

SaveFailure(d, message) ==
    [disk |-> d, threw |-> TRUE, value |-> "Failed to save README: " \o message]

\* A save that writes the new content first and copies to the backup after
saveReadmeWritesFirst(d, content, now, copyThrows, writeThrows) ==
    LET written == WriteFile(d, ReadmePath, content)
    IN  IF writeThrows THEN SaveFailure(d, WriteFileError)
        ELSE IF ReadmePath \in DOMAIN d /\ copyThrows
        THEN SaveFailure(written, CopyFileError)
        ELSE IF ReadmePath \in DOMAIN d
        THEN [disk  |-> WriteFile(written, BackupPath(now), written[ReadmePath]),
              threw |-> FALSE, value |-> ReadmePath]
        ELSE [disk |-> written, threw |-> FALSE, value |-> ReadmePath]

\* saveReadme(content) on the files d at time now: what is on disk afterwards,
\* and the path returned or the message of the error thrown.  copyFileSync
\* and writeFileSync may each throw.
saveReadme(d, content, now, copyThrows, writeThrows) ==
    LET exists == ReadmePath \in DOMAIN d
        backed == IF exists THEN WriteFile(d, BackupPath(now), d[ReadmePath]) ELSE d
    IN  IF exists /\ copyThrows THEN SaveFailure(d, CopyFileError)
        ELSE IF writeThrows THEN SaveFailure(backed, WriteFileError)
        ELSE [disk  |-> WriteFile(backed, ReadmePath, content),
              threw |-> FALSE, value |-> ReadmePath]

SaveContents == {"# Demo", "# Demo\n\nGenerated.", "# Other"}

\* A root without a README, with one, and with one and a backup of an
\* earlier one
InitialDisks ==
    {NoReadmeFiles,
     WriteFile(NoReadmeFiles, ReadmePath, "# Hand written"),
     WriteFile(NoReadmeFiles, ReadmePath, "# Demo"),
     WriteFile(WriteFile(NoReadmeFiles, ReadmePath, "# Hand written"),
               BackupPath(1000), "# Older")}

PreviewQuestion == Information("README generated successfully! What would you like to do?")

SaveResults(shown) ==
    {k \in 1..Len(shown) :
        \/ shown[k] = Information("README saved successfully!\n\nLocation: " \o ReadmePath)
        \/ (shown[k].kind = "error" /\ StartsWith(shown[k].message, "Failed to save README: "))}

\* generateReadme has returned and the preview is about to be shown
InitSave ==
    /\ ws = WithoutGitignore(TreeScenario)
    /\ rules = <<>>
    /\ allFiles = <<>>
    /\ lastQuery = NoQuery
    /\ pc = "generated"
    /\ inputInfos = <<>>
    /\ fileInfos = <<>>
    /\ analyses = <<>>
    /\ chunks = <<>>
    /\ iChunk = 0
    /\ generatedChunks = <<>>
    /\ calls = <<>>
    /\ progress = <<>>
    /\ timers = <<>>
    /\ readme \in SaveContents
    /\ host = DefaultHost
    /\ ui = <<>>
    /\ cancelled = FALSE
    /\ disk \in InitialDisks

\* The user answers the question of the preview with Save README: the save
\* of the extension calls saveReadme and shows where the file is, or the error
SaveReadme ==
    /\ pc = "previewed"
    /\ Len(ui) > 0 /\ ui[Len(ui)] = PreviewQuestion
    /\ \E now \in Clock, copyThrows \in BOOLEAN, writeThrows \in BOOLEAN :
          LET saved == saveReadme(disk, readme, now, copyThrows, writeThrows)
          IN  /\ disk' = saved.disk
              /\ ui' = Append(ui, IF saved.threw
                                  THEN ErrorShown("Failed to save README: " \o saved.value)
                                  ELSE Information("README saved successfully!\n\nLocation: "
                                                       \o Basename(saved.value)))
              /\ pc' = IF saved.threw THEN "saveFailed" ELSE "saved"
    /\ UNCHANGED <<discoverVars, analyzeVars, generateVars, host, cancelled>>

\* The command is run again and generateReadme returns another README
GenerateReadmeAgain ==
    /\ pc \in {"saved", "saveFailed"}
    /\ Cardinality(SaveResults(ui)) < MaxSaves
    /\ readme' \in SaveContents
    /\ pc' = "generated"
    /\ UNCHANGED <<discoverVars, analyzeVars, iChunk, generatedChunks, calls, progress,
                   timers, hostVars>>

NextSave ==
    \/ ShowReadmePreview
    \/ SaveReadme
    \/ GenerateReadmeAgain

SpecSave == InitSave /\ [][NextSave]_vars

-----------------------------------------------------------------------------
(* Properties of the save *)

IsBackupPath(name) == \E now \in Clock : name = BackupPath(now)

LastShown(shown) == shown[Len(shown)]

CopyFailureShown(shown) ==
    /\ Len(shown) > 0
    /\ LastShown(shown)
           = ErrorShown("Failed to save README: Failed to save README: " \o CopyFileError)

\* C30: saveReadme never overwrites an existing README.md without having
\* copied it to a backup first: a step that changes the content of an existing
\* README.md leaves a backup file holding the content it had; the file is
\* written only after the copy succeeded, so that a step in which the copy
\* fails leaves every file as it was and ends with the error of saveReadme.
C30_BackupBeforeOverwrite ==
    [][/\ ReadmePath \in DOMAIN disk => ReadmePath \in DOMAIN disk'
       /\ (ReadmePath \in DOMAIN disk /\ disk'[ReadmePath] # disk[ReadmePath]) =>
             \E b \in DOMAIN disk' : IsBackupPath(b) /\ disk'[b] = disk[ReadmePath]
       /\ (pc = "previewed" /\ CopyFailureShown(ui')) =>
             (disk' = disk /\ pc' = "saveFailed")
       /\ (pc = "previewed" /\ pc' = "saveFailed" /\ ReadmePath \in DOMAIN disk) =>
             disk'[ReadmePath] = disk[ReadmePath]]_vars

\* C30 witness: a save has replaced a README.md of another content, which a
\* backup file now holds.
C30_Witness ==
    /\ pc = "saved"
    /\ ReadmePath \in DOMAIN disk /\ disk[ReadmePath] = readme
    /\ \E b \in DOMAIN disk :
          IsBackupPath(b) /\ disk[b] = "# Hand written" /\ disk[b] # disk[ReadmePath]

=============================================================================
